---- MODULE Spec2Model ----
(***************************************************************************)
(* A model of fetch-rs's event-bridging layer: the Server dispatch facade  *)
(* (src/lib/server.ts) and the FetchEvent / Response / Headers classes     *)
(* (src/lib/fetch-event.ts), on top of the JavaScript run-to-completion    *)
(* and promise-reaction (microtask) semantics the code relies on.          *)
(*                                                                         *)
(* JavaScript values are tagged records ([t |-> "string", v |-> ...]);     *)
(* strings are sequences of UTF-16 code units, byte buffers sequences of   *)
(* bytes. A Buffer has an identity: messages hold their body by reference *)
(* to a heap of Buffers.                                                   *)
(*                                                                         *)
(* Eight specifications share the variables: Spec (the bridge: server,     *)
(* dispatch, respondWith), SpecHeaders (one Headers and the calls made on  *)
(* it), SpecMessages (a Request or Response, its clones and the calls made *)
(* on them), SpecFactories (Response.json, Response.redirect, a Request    *)
(* made from a Request), SpecHandlers (handlers that change the handler    *)
(* list during a dispatch, async handlers), SpecCapsule (a Request and a   *)
(* Response given the same body and the same calls), SpecExchange (an      *)
(* exchange through an echo handler, with waitUntil and close) and         *)
(* SpecInterleaved (two exchanges whose replies interleave).               *)
(***************************************************************************)
EXTENDS Integers, Sequences, FiniteSets, TLC

\* ------------------------------------------------------------------ bounds

\* Handlers that may be registered on the server at one time.
MaxHandlers == 2
\* Exchanges the transport delivers in one behaviour.
MaxExchanges == 1
\* respondWith calls made on one FetchEvent.
MaxCalls == 2
\* Calls made on the Headers under study.
MaxHeaderOps == 3
\* Request and Response objects under study: one constructed, the others its clones.
MaxMessages == 2
\* Calls made on the messages under study.
MaxBodyCalls == 3
\* waitUntil calls made on one FetchEvent.
MaxWaits == 2
\* Registration calls handlers make while dispatches run.
MaxRegistrations == 2
\* Exchanges whose dispatches and replies interleave.
MaxInterleaved == 2

\* --------------------------------------------------------- JavaScript values

Null == [t |-> "null"]
Undefined == [t |-> "undefined"]
Str(cs) == [t |-> "string", v |-> cs]
Bytes(bs) == [t |-> "bytes", v |-> bs]
Num(n) == [t |-> "number", v |-> n]
Err(m) == [t |-> "Error", message |-> m]

\* A value is nullish when `??` and `?.` treat it as absent.
IsNullish(v) == v.t \in {"null", "undefined"}

\* a ?? b
Coalesce(a, b) == IF IsNullish(a) THEN b ELSE a

\* The string literals of the source, as code units.
InternalServerErrorPrefix ==
  <<73, 110, 116, 101, 114, 110, 97, 108, 32, 83, 101, 114, 118, 101, 114, 32,
    69, 114, 114, 111, 114, 58, 32>>
UndefinedText == <<117, 110, 100, 101, 102, 105, 110, 101, 100>>
NullText == <<110, 117, 108, 108>>
OkText == <<79, 75>>
ErrorColonText == <<69, 114, 114, 111, 114, 58, 32>>
AlreadyCalledText ==
  <<114, 101, 115, 112, 111, 110, 100, 87, 105, 116, 104, 40, 41, 32, 104, 97,
    115, 32, 97, 108, 114, 101, 97, 100, 121, 32, 98, 101, 101, 110, 32, 99,
    97, 108, 108, 101, 100>>

\* String.prototype.toLowerCase on one code unit (the ASCII and Latin-1 letters).
LowerUnit(c) ==
  IF (c >= 65 /\ c <= 90) \/ (c >= 192 /\ c <= 222 /\ c # 215) THEN c + 32 ELSE c

ToLowerCase(cs) == [i \in 1..Len(cs) |-> LowerUnit(cs[i])]

IsHighSurrogate(c) == c >= 55296 /\ c <= 56319
IsLowSurrogate(c) == c >= 56320 /\ c <= 57343

\* The UTF-8 bytes of one code point.
Utf8OfCodePoint(p) ==
  IF p < 128 THEN <<p>>
  ELSE IF p < 2048 THEN <<192 + (p \div 64), 128 + (p % 64)>>
  ELSE IF p < 65536
    THEN <<224 + (p \div 4096), 128 + ((p \div 64) % 64), 128 + (p % 64)>>
  ELSE <<240 + (p \div 262144), 128 + ((p \div 4096) % 64),
         128 + ((p \div 64) % 64), 128 + (p % 64)>>

\* Buffer.from(string): the UTF-8 encoding of a sequence of UTF-16 code units; a
\* surrogate pair is one code point, a lone surrogate is encoded as U+FFFD.
RECURSIVE Utf8Encode(_)
Utf8Encode(cs) ==
  IF cs = <<>> THEN <<>>
  ELSE IF IsHighSurrogate(cs[1]) /\ Len(cs) >= 2 /\ IsLowSurrogate(cs[2])
    THEN Utf8OfCodePoint(65536 + (cs[1] - 55296) * 1024 + (cs[2] - 56320))
           \o Utf8Encode(SubSeq(cs, 3, Len(cs)))
  ELSE IF IsHighSurrogate(cs[1]) \/ IsLowSurrogate(cs[1])
    THEN <<239, 191, 189>> \o Utf8Encode(Tail(cs))
  ELSE Utf8OfCodePoint(cs[1]) \o Utf8Encode(Tail(cs))

\* The decimal digits of a natural number (Number::toString for the integers here).
RECURSIVE NumberText(_)
NumberText(n) == IF n < 10 THEN <<48 + n>> ELSE NumberText(n \div 10) \o <<48 + (n % 10)>>

\* `${v}` / String(v) for the values that reach a template literal here.
ToStringJS(v) ==
  CASE v.t = "string" -> v.v
    [] v.t = "number" -> NumberText(v.v)
    [] v.t = "undefined" -> UndefinedText
    [] v.t = "null" -> NullText
    [] v.t = "Error" -> ErrorColonText \o v.message.v
    [] OTHER -> UndefinedText

\* error.message: a property read. Reading a property of null or undefined throws a
\* TypeError (reported by PropertyReadThrows); a string primitive has no `message`.
PropertyReadThrows(v) == IsNullish(v)

MessageOf(error) == IF error.t = "Error" THEN error.message ELSE Undefined

\* ------------------------------------------------------------------ Headers

\* The Map<string, string> inside a Headers: a sequence of <<key, value>> in insertion
\* order, with distinct keys. Map.prototype.set keeps the position of an existing key.
MapHas(m, k) == \E i \in 1..Len(m) : m[i][1] = k

\* (mutant) a set that moves a key it overwrites to the end
MapSetMovesToEnd(m, k, v) == Append(SelectSeq(m, LAMBDA e : e[1] # k), <<k, v>>)

MapSet(m, k, v) ==
  IF MapHas(m, k)
    THEN [i \in 1..Len(m) |-> IF m[i][1] = k THEN <<k, v>> ELSE m[i]]
    ELSE Append(m, <<k, v>>)

\* Map.prototype.get: the value under k, undefined when k is absent.
MapGet(m, k) ==
  IF MapHas(m, k) THEN Str((CHOOSE e \in {m[i] : i \in 1..Len(m)} : e[1] = k)[2])
  ELSE Undefined

\* Map.prototype.delete
MapDelete(m, k) == SelectSeq(m, LAMBDA e : e[1] # k)

\* The truth value `if (v)` gives a string or undefined: the empty string is falsy.
Truthy(v) ==
  CASE v.t = "string" -> v.v # <<>>
    [] v.t \in {"undefined", "null"} -> FALSE
    [] OTHER -> TRUE

RECURSIVE HeadersFillJoining(_, _)
HeadersFillJoining(m, entries) ==
  IF entries = <<>> THEN m
  ELSE LET key == ToLowerCase(entries[1][1])
           joined == IF MapHas(m, key) THEN MapGet(m, key).v \o <<44, 32>> \o entries[1][2]
                     ELSE entries[1][2]
       IN HeadersFillJoining(MapSet(m, key, joined), Tail(entries))

\* The constructor's loops: every entry is stored with set(key.toLowerCase(), value).
RECURSIVE HeadersFill(_, _)
HeadersFill(m, entries) ==
  IF entries = <<>> THEN m
  ELSE HeadersFill(MapSet(m, ToLowerCase(entries[1][1]), entries[1][2]), Tail(entries))

\* The items of an array init the constructor's loop stores: a tuple gives item[0] and
\* item[1], a {name, value} record its two fields, anything else is skipped.
RECURSIVE ArrayEntries(_)
ArrayEntries(items) ==
  IF items = <<>> THEN <<>>
  ELSE IF items[1].k \in {"tuple", "pair"}
    THEN <<<<items[1].name, items[1].value>>>> \o ArrayEntries(Tail(items))
  ELSE ArrayEntries(Tail(items))

\* The <<name, value>> entries the constructor iterates over, by the shape of init:
\* [t |-> "Headers", map |-> m] another Headers, [t |-> "array", v |-> items] an array of
\* tuples and records, [t |-> "object", v |-> pairs] a plain object with its
\* Object.entries.
EntriesOf(init) ==
  CASE init.t = "Headers" -> init.map
    [] init.t = "array" -> ArrayEntries(init.v)
    [] init.t = "object" -> init.v
    [] OTHER -> <<>>

\* new Headers(init)
HeadersCtor(init) == IF IsNullish(init) THEN <<>> ELSE HeadersFill(<<>>, EntriesOf(init))

\* Headers.set
HeadersSet(m, name, value) == MapSet(m, ToLowerCase(name), value)

\* Headers.append
HeadersAppend(m, name, value) ==
  LET key == ToLowerCase(name)
      existing == MapGet(m, key)
  IN IF Truthy(existing) THEN MapSet(m, key, existing.v \o <<44, 32>> \o value)
     ELSE MapSet(m, key, value)

HeadersDeleteExactName(m, name) == MapDelete(m, name)

\* Headers.delete
HeadersDelete(m, name) == MapDelete(m, ToLowerCase(name))

\* Headers.get
HeadersGet(m, name) == Coalesce(MapGet(m, ToLowerCase(name)), Null)

\* Headers.has
HeadersHas(m, name) == MapHas(m, ToLowerCase(name))

\* Headers.toJsHeaders
ToJsHeaders(m) == [i \in 1..Len(m) |-> [name |-> m[i][1], value |-> m[i][2]]]

\* ----------------------------------------------------------------- Response

\* A Buffer is an object with an identity: BufferRef(id) is the Buffer allocated as
\* heap[id] (its bytes are read through the heap). Bytes(bs) as the _body of a message
\* just constructed is a Buffer newly allocated by Buffer.from, holding bs.
BufferRef(id) == [t |-> "Buffer", id |-> id]

\* new Response(body, init): init is [status, statusText, headers], each possibly
\* Undefined (an omitted init is all Undefined). A Buffer passed as body is kept as it
\* is (Buffer.isBuffer), not copied.
NoInit == [status |-> Undefined, statusText |-> Undefined, headers |-> Undefined]

ResponseCtor(body, init) ==
  [t |-> "Response",
   status |-> Coalesce(init.status, Num(200)).v,
   statusText |-> Coalesce(init.statusText, Str(OkText)),
   headers |-> HeadersCtor(init.headers),
   body |-> IF IsNullish(body) THEN Null
            ELSE IF body.t = "string" THEN Bytes(Utf8Encode(body.v))
            ELSE IF body.t \in {"bytes", "Buffer"} THEN body
            ELSE Bytes(Utf8Encode(ToStringJS(body))),
   bodyUsed |-> FALSE]

ToJsResponseDropsUsedBody(r) ==
  [status |-> r.status, headers |-> ToJsHeaders(r.headers),
   body |-> IF r.bodyUsed THEN Undefined ELSE Coalesce(r.body, Undefined)]

\* Response._toJsResponse
ToJsResponse(r) ==
  [status |-> r.status, headers |-> ToJsHeaders(r.headers), body |-> Coalesce(r.body, Undefined)]

\* ----------------------------------------------------------------- promises

\* The state of a promise: pending, or settled with a value or a reason.
Pending == [state |-> "pending", value |-> Undefined]
Fulfilled(v) == [state |-> "fulfilled", value |-> v]
Rejected(r) == [state |-> "rejected", value |-> r]

\* ------------------------------------------------------------------ Request

\* Buffer.from(b) for a string (its UTF-8 encoding) or a Buffer of heap h (a copy).
BufferFrom(h, b) == IF b.t = "Buffer" THEN Bytes(h[b.id]) ELSE Bytes(Utf8Encode(ToStringJS(b)))

\* new Request(input, init) with the Buffers of heap h: input is a URL string or a
\* Request, init is [method, headers, body], each possibly Undefined.
RequestCtor(h, input, init) ==
  IF input.t = "Request"
    THEN [t |-> "Request",
          method |-> Coalesce(init.method, input.method),
          url |-> input.url,
          headers |-> HeadersCtor(Coalesce(init.headers, [t |-> "Headers", map |-> input.headers])),
          body |-> input.body,
          bodyUsed |-> FALSE]
    ELSE [t |-> "Request",
          method |-> Coalesce(init.method, Str(<<71, 69, 84>>)),
          url |-> input,
          headers |-> HeadersCtor(init.headers),
          body |-> IF Truthy(init.body) THEN BufferFrom(h, init.body) ELSE Null,
          bodyUsed |-> FALSE]

\* ------------------------------------------- the body of a Request / Response

\* The heap after the construction of message o, and o holding its Buffer by reference.
Stored(h, o) ==
  IF o.body.t = "bytes"
    THEN [heap |-> Append(h, o.body.v), obj |-> [o EXCEPT !.body = BufferRef(Len(h) + 1)]]
    ELSE [heap |-> h, obj |-> o]

\* buffer.toString("utf-8"): UTF-8 decoding; every maximal ill-formed part of the input
\* decodes to U+FFFD.
RECURSIVE Utf8Decode(_)
Utf8Decode(bs) ==
  IF bs = <<>> THEN <<>>
  ELSE
    LET b == bs[1]
        need == IF b < 128 THEN 0
                ELSE IF b >= 194 /\ b <= 223 THEN 1
                ELSE IF b >= 224 /\ b <= 239 THEN 2
                ELSE IF b >= 240 /\ b <= 244 THEN 3
                ELSE -1
        lo == IF b = 224 THEN 160 ELSE IF b = 240 THEN 144 ELSE 128
        hi == IF b = 237 THEN 159 ELSE IF b = 244 THEN 143 ELSE 191
        Continues(k) ==
          /\ k <= Len(bs)
          /\ IF k = 2 THEN bs[k] >= lo /\ bs[k] <= hi ELSE bs[k] >= 128 /\ bs[k] <= 191
        got == IF need < 1 \/ ~Continues(2) THEN 0
               ELSE IF need < 2 \/ ~Continues(3) THEN 1
               ELSE IF need < 3 \/ ~Continues(4) THEN 2
               ELSE 3
        point == IF need = 1 THEN (b - 192) * 64 + (bs[2] - 128)
                 ELSE IF need = 2 THEN (b - 224) * 4096 + (bs[2] - 128) * 64 + (bs[3] - 128)
                 ELSE (b - 240) * 262144 + (bs[2] - 128) * 4096 + (bs[3] - 128) * 64
                        + (bs[4] - 128)
        units == IF point < 65536 THEN <<point>>
                 ELSE <<55296 + ((point - 65536) \div 1024), 56320 + ((point - 65536) % 1024)>>
        Rest(n) == SubSeq(bs, n + 1, Len(bs))
    IN IF need = 0 THEN <<b>> \o Utf8Decode(Tail(bs))
       ELSE IF need = -1 THEN <<65533>> \o Utf8Decode(Tail(bs))
       ELSE IF got = need THEN units \o Utf8Decode(Rest(need + 1))
       ELSE <<65533>> \o Utf8Decode(Rest(got + 1))

BodyConsumedText ==
  <<66, 111, 100, 121, 32, 104, 97, 115, 32, 97, 108, 114, 101, 97, 100, 121, 32, 98,
    101, 101, 110, 32, 99, 111, 110, 115, 117, 109, 101, 100>>
CloneRequestText ==
  <<67, 97, 110, 110, 111, 116, 32, 99, 108, 111, 110, 101, 32, 97, 32, 82, 101, 113,
    117, 101, 115, 116, 32, 119, 104, 111, 115, 101, 32, 98, 111, 100, 121, 32, 104,
    97, 115, 32, 98, 101, 101, 110, 32, 117, 115, 101, 100>>
CloneResponseText ==
  <<67, 97, 110, 110, 111, 116, 32, 99, 108, 111, 110, 101, 32, 97, 32, 82, 101, 115,
    112, 111, 110, 115, 101, 32, 119, 104, 111, 115, 101, 32, 98, 111, 100, 121, 32,
    104, 97, 115, 32, 98, 101, 101, 110, 32, 117, 115, 101, 100>>
FormDataText ==
  <<70, 111, 114, 109, 68, 97, 116, 97, 32, 112, 97, 114, 115, 105, 110, 103, 32, 110,
    111, 116, 32, 121, 101, 116, 32, 105, 109, 112, 108, 101, 109, 101, 110, 116, 101,
    100>>
\* The engine's message for a JSON.parse failure, stood for by a short text.
SyntaxErrorText ==
  <<83, 121, 110, 116, 97, 120, 69, 114, 114, 111, 114>>

SyntaxErrorValue == Err(Str(SyntaxErrorText))

CheckBodyUsedNeverThrows(o) == FALSE

\* _checkBodyUsed: whether it throws.
CheckBodyUsedThrows(o) == o.bodyUsed

\* The bytes of message o's Buffer (in heap h when the message holds it by reference),
\* none when _body is null.
BodyBytes(h, o) ==
  IF o.body.t = "Buffer" THEN h[o.body.id]
  ELSE IF o.body.t = "bytes" THEN o.body.v
  ELSE <<>>

\* The synchronous part of text(), arrayBuffer() and blob(): the promise the call
\* returns and the message after it.
ReadBody(o, value) ==
  IF CheckBodyUsedThrows(o) THEN [promise |-> Rejected(Err(Str(BodyConsumedText))), obj |-> o]
  ELSE [promise |-> Fulfilled(value), obj |-> [o EXCEPT !.bodyUsed = TRUE]]

\* text()
Text(h, o) == ReadBody(o, Str(Utf8Decode(BodyBytes(h, o))))
\* arrayBuffer(): a copy of the bytes
ArrayBufferOf(h, o) == ReadBody(o, [t |-> "ArrayBuffer", v |-> BodyBytes(h, o)])
\* blob()
Blob(h, o) == ReadBody(o, [t |-> "Blob", v |-> BodyBytes(h, o)])

\* JSON.parse on the texts the bodies here hold: surrounded by JSON white space, a
\* literal, an integer, an empty array or an empty object parse; anything else (the
\* empty text included) is a SyntaxError.
JsonParse(text) ==
  LET IsJsonSpace(c) == c \in {32, 9, 10, 13}
      first == IF \E i \in 1..Len(text) : ~IsJsonSpace(text[i])
                 THEN CHOOSE i \in 1..Len(text) :
                        ~IsJsonSpace(text[i]) /\ \A j \in 1..(i - 1) : IsJsonSpace(text[j])
                 ELSE 1
      final == IF \E i \in 1..Len(text) : ~IsJsonSpace(text[i])
                 THEN CHOOSE i \in 1..Len(text) :
                        ~IsJsonSpace(text[i]) /\ \A j \in (i + 1)..Len(text) : IsJsonSpace(text[j])
                 ELSE 0
      cs == SubSeq(text, first, final)
      IsInteger == /\ cs # <<>>
                   /\ \A i \in 1..Len(cs) : cs[i] >= 48 /\ cs[i] <= 57
                   /\ Len(cs) > 1 => cs[1] # 48
      RECURSIVE Value(_)
      Value(n) == IF n = 0 THEN 0 ELSE Value(n - 1) * 10 + (cs[n] - 48)
  IN IF IsInteger THEN Fulfilled(Num(Value(Len(cs))))
     ELSE IF cs = NullText THEN Fulfilled(Null)
     ELSE IF cs = <<116, 114, 117, 101>> THEN Fulfilled([t |-> "boolean", v |-> TRUE])
     ELSE IF cs = <<102, 97, 108, 115, 101>> THEN Fulfilled([t |-> "boolean", v |-> FALSE])
     ELSE IF cs = <<91, 93>> THEN Fulfilled([t |-> "array", v |-> <<>>])
     ELSE IF cs = <<123, 125>> THEN Fulfilled([t |-> "object", v |-> <<>>])
     ELSE Rejected(SyntaxErrorValue)

JsonResumedUnparsed(awaited) == awaited

\* json() after `await this.text()`: the awaited promise's rejection is rethrown, its
\* text is parsed.
JsonResumed(awaited) ==
  IF awaited.state = "rejected" THEN awaited ELSE JsonParse(awaited.value.v)

FormDataFulfils(o) == Fulfilled(Undefined)

\* formData(): the promise the call returns.
FormData(o) == Rejected(Err(Str(FormDataText)))

BodyStreamNullOnceUsed(h, o) ==
  IF o.body = Null \/ o.bodyUsed THEN Null
  ELSE [t |-> "ReadableStream", chunks |-> <<h[o.body.id]>>]

\* The `body` getter: null, or a stream that enqueued one chunk, a copy of the Buffer.
BodyStream(h, o) ==
  IF o.body = Null THEN Null
  ELSE [t |-> "ReadableStream", chunks |-> <<h[o.body.id]>>]

CloneNeverThrows(o) == FALSE

\* clone(): whether it throws, what it throws, and the message it constructs.
CloneThrows(o) == o.bodyUsed
CloneError(o) ==
  Err(Str(IF o.t = "Request" THEN CloneRequestText ELSE CloneResponseText))
Clone(h, o) ==
  IF o.t = "Request"
    THEN RequestCtor(h, o.url, [method |-> o.method,
                                headers |-> [t |-> "Headers", map |-> o.headers],
                                body |-> Coalesce(o.body, Undefined)])
    ELSE ResponseCtor(o.body, [status |-> Num(o.status), statusText |-> o.statusText,
                               headers |-> [t |-> "Headers", map |-> o.headers]])

\* ------------------------------------------------- Response.json / redirect

ContentTypeText ==
  <<99, 111, 110, 116, 101, 110, 116, 45, 116, 121, 112, 101>>
ApplicationJsonText ==
  <<97, 112, 112, 108, 105, 99, 97, 116, 105, 111, 110, 47, 106, 115, 111, 110>>
LocationText ==
  <<108, 111, 99, 97, 116, 105, 111, 110>>
InvalidRedirectPrefix ==
  <<73, 110, 118, 97, 108, 105, 100, 32, 114, 101, 100, 105, 114, 101, 99, 116, 32,
    115, 116, 97, 116, 117, 115, 58, 32>>

\* JSON.stringify(data) for the data here: a natural number, null, a boolean, an
\* empty array, an empty object give their JSON text; undefined gives undefined.
JsonStringify(data) ==
  CASE data.t = "number" -> Str(NumberText(data.v))
    [] data.t = "null" -> Str(NullText)
    [] data.t = "boolean" -> Str(IF data.v THEN <<116, 114, 117, 101>> ELSE <<102, 97, 108, 115, 101>>)
    [] data.t = "array" -> Str(<<91, 93>>)
    [] data.t = "object" -> Str(<<123, 125>>)
    [] OTHER -> Undefined

\* Response.json(data, init)
ResponseJson(data, init) ==
  LET body == JsonStringify(data)
      headers == HeadersSet(HeadersCtor(init.headers), ContentTypeText, ApplicationJsonText)
  IN ResponseCtor(body, [init EXCEPT !.headers = [t |-> "Headers", map |-> headers]])

\* Response.redirect(url, status): status undefined takes the default 302.
RedirectStatus(status) == IF status.t = "undefined" THEN 302 ELSE status.v

RedirectNeverThrows(status) == FALSE

RedirectThrows(status) == RedirectStatus(status) \notin {301, 302, 303, 307, 308}

RedirectError(status) == Err(Str(InvalidRedirectPrefix \o NumberText(RedirectStatus(status))))

ResponseRedirect(url, status) ==
  ResponseCtor(Null, [status |-> Num(RedirectStatus(status)), statusText |-> Undefined,
                      headers |-> [t |-> "object", v |-> <<<<LocationText, url.v>>>>]])

\* --------------------------------------------------------------- the inputs

\* Handlers are user functions; the model knows them by identity.
HandlerIds == {1, 2}

\* Event kinds passed to addEventListener / removeEventListener.
FetchKind == <<102, 101, 116, 99, 104>>
MessageKind == <<109, 101, 115, 115, 97, 103, 101>>
\* "fetch", "message" and "Fetch": the comparison with 'fetch' is strict.
EventKinds == {FetchKind, MessageKind, <<70, 101, 116, 99, 104>>}

\* Responses a handler submits: a text body with default options, and an absent body
\* with a status and a header given in mixed case.
HiText == <<72, 105>>
HeaderXA == <<88, 45, 65>>
OneText == <<49>>
ResponseHi == ResponseCtor(Str(HiText), NoInit)
ResponseNotFound ==
  ResponseCtor(Null, [status |-> Num(404), statusText |-> Undefined,
                      headers |-> [t |-> "object", v |-> <<<<HeaderXA, OneText>>>>]])
Responses == {ResponseHi, ResponseNotFound}

\* Header names in three casings of one name ("X-A", "x-a", "X-a") and another name
\* ("b"); header values, the empty string included.
LowerXA == <<120, 45, 97>>
MixedXA == <<88, 45, 97>>
NameB == <<98>>
HeaderNames == {HeaderXA, LowerXA, MixedXA, NameB}
EmptyText == <<>>
TwoText == <<50>>
HeaderValues == {EmptyText, OneText, TwoText}

\* What a Headers is constructed from: nothing, and each accepted shape with entries
\* that name one header in several casings.
HeaderInits ==
  {Undefined,
   [t |-> "object", v |-> <<<<HeaderXA, OneText>>, <<NameB, EmptyText>>, <<LowerXA, TwoText>>>>],
   [t |-> "object", v |-> <<<<NameB, OneText>>>>],
   [t |-> "array", v |-> <<[k |-> "tuple", name |-> LowerXA, value |-> OneText], [k |-> "tuple", name |-> MixedXA, value |-> TwoText]>>],
   [t |-> "array", v |-> <<[k |-> "tuple", name |-> HeaderXA, value |-> TwoText], [k |-> "tuple", name |-> HeaderXA, value |-> EmptyText]>>],
   [t |-> "array", v |-> <<[k |-> "pair", name |-> HeaderXA, value |-> OneText], [k |-> "other"], [k |-> "pair", name |-> LowerXA, value |-> TwoText]>>],
   [t |-> "array", v |-> <<[k |-> "pair", name |-> NameB, value |-> TwoText], [k |-> "tuple", name |-> HeaderXA, value |-> OneText],
                           [k |-> "pair", name |-> NameB, value |-> OneText]>>],
   [t |-> "Headers", map |-> <<<<LowerXA, OneText>>, <<NameB, TwoText>>>>],
   [t |-> "Headers", map |-> <<<<LowerXA, EmptyText>>>>]}

\* The messages under study: a Request for "/" or a Response, with a header given in
\* upper case and a body that is absent, a text (the empty text, text that is not
\* JSON, text that is) or the user's Buffer; that Buffer holds a JSON text or bytes that
\* are not UTF-8, and the user may write to it.
MessageHeaders == [t |-> "object", v |-> <<<<HeaderXA, OneText>>>>]
UserBuffer == BufferRef(1)
UserBuffers == {<<49>>, <<255, 105>>}
BodyInits == {Undefined, Str(EmptyText), Str(HiText), Str(OneText), UserBuffer}

\* Data and options given to Response.json: JSON values and undefined; no options, and
\* a status, a status text, a content-type in mixed case and another header.
JsonData ==
  {Num(1), Num(42), Null, [t |-> "boolean", v |-> TRUE], [t |-> "array", v |-> <<>>],
   [t |-> "object", v |-> <<>>], Undefined}
JsonInits ==
  {NoInit,
   [status |-> Num(201), statusText |-> Str(HiText),
    headers |-> [t |-> "object",
                 v |-> <<<<<<67, 111, 110, 116, 101, 110, 116, 45, 84, 121, 112, 101>>, HiText>>,
                         <<HeaderXA, OneText>>>>]],
   [status |-> Undefined, statusText |-> Undefined,
    headers |-> [t |-> "array",
                 v |-> <<[k |-> "tuple", name |-> NameB, value |-> TwoText],
                         [k |-> "tuple", name |-> ContentTypeText, value |-> HiText]>>]]}

\* Statuses given to Response.redirect (omitted, valid, and their neighbours), and what
\* a Request constructed from a Request is given as init.
RedirectInputs ==
  {Undefined} \cup {Num(n) : n \in {200, 300, 301, 302, 303, 304, 307, 308, 309}}
\* The exchange descriptors (RequestContext) the transport delivers: a method, a url,
\* header pairs (two of them with one name in two spellings), a body Buffer that is
\* absent, null, text or bytes that are not UTF-8, the peer address, and the reply
\* function, which the model knows by the exchange's number.
PlainContext ==
  [method |-> Str(<<71, 69, 84>>), url |-> Str(<<47>>),
   headers |-> [t |-> "array", v |-> <<>>], body |-> Undefined,
   clientAddress |-> Str(<<49, 50, 55, 46, 48, 46, 48, 46, 49>>)]
Contexts ==
  {PlainContext} \cup
  {[method |-> Str(<<80, 79, 83, 84>>), url |-> Str(<<47, 97>>),
    headers |-> [t |-> "array",
                 v |-> <<[k |-> "pair", name |-> MixedXA, value |-> OneText],
                         [k |-> "pair", name |-> NameB, value |-> HiText],
                         [k |-> "pair", name |-> LowerXA, value |-> TwoText]>>],
    body |-> b, clientAddress |-> Str(<<49, 48, 46, 48, 46, 48, 46, 49>>)] :
     b \in {Null, Bytes(<<>>), Bytes(HiText), Bytes(<<255, 105>>)}}

\* Promises passed to waitUntil, known by identity, and the states they are passed in.
BackgroundIds == {1, 2}
BackgroundStates == {"pending", "fulfilled"}

RequestInits ==
  [method : {Undefined, Str(<<80, 79, 83, 84>>)},
   headers : {Undefined, [t |-> "object", v |-> <<<<NameB, TwoText>>>>]},
   body : {Undefined, Str(TwoText)}]

\* What the argument of respondWith may fulfil with: a Response, or (the type
\* annotations are not enforced at run time) a value that is no Response.
FulfilValues == Responses \cup {Undefined}

\* Error messages: ASCII ("boom"), and one with a two-byte character ("bé").
BoomText == <<98, 111, 111, 109>>
BeText == <<98, 233>>
Messages == {BoomText, BeText}

\* What the argument of respondWith may reject with.
RejectReasons == {Err(Str(m)) : m \in Messages} \cup {Str(BoomText), Null, Undefined}

\* The argument of respondWith: a Response or other plain value is a promise already
\* fulfilled with it (Promise.resolve), a promise is pending or already settled.
Arguments ==
  {Pending} \cup {Fulfilled(v) : v \in FulfilValues} \cup {Rejected(r) : r \in RejectReasons}

Outcomes == Arguments \ {Pending}

\* Errors thrown by the engine and by the transport's reply function; their messages
\* are the engine's and the transport's own, stood for by short texts.
NotAFunctionText == <<84, 121, 112, 101, 69, 114, 114, 111, 114>>
SinkFailedText == <<115, 105, 110, 107>>
TypeErrorValue == Err(Str(NotAFunctionText))
SinkError == Err(Str(SinkFailedText))

NoError == [t |-> "none"]
AlreadyRespondedError == Err(Str(AlreadyCalledText))
UnknownEventPrefix ==
  <<85, 110, 107, 110, 111, 119, 110, 32, 101, 118, 101, 110, 116, 32, 116, 121, 112, 101, 58, 32>>
\* (mutant) an unknown kind accepted silently
UnknownEventIgnored(kind) == NoError

UnknownEventError(kind) == Err(Str(UnknownEventPrefix \o kind))
\* The first sentence of listen()'s message.
NoHandlerText ==
  <<78, 111, 32, 102, 101, 116, 99, 104, 32, 104, 97, 110, 100, 108, 101, 114, 32, 114, 101, 103, 105, 115, 116, 101, 114, 101, 100, 46>>
NoHandlerError == Err(Str(NoHandlerText))

\* -------------------------------------------------------------------- state

VARIABLES
  handlers,      \* Server._handlers: a sequence of handler identities
  installed,     \* whether listen() has passed the dispatch callback to the transport
  transport,     \* the native server: "created", "starting" (its listen() called),
                 \* "listening" (accepting), "closing" (its close() called), "closed"
  events,        \* the FetchEvents constructed, in order of construction
  replies,       \* per exchange: the invocations of its reply function ctx.respond
  microtasks,    \* the promise-reaction jobs queued, first in first out
  pc,            \* "idle", or the dispatch callback's position: "loop", "handler"
  cur,           \* the running dispatch: its exchange, event and iterator index
  invocations,   \* history: the handler invocations, each with the event passed
  dispatched,    \* history: per exchange, the handler list when its dispatch began
  calls,         \* history: per event, the respondWith calls made on it
  consoleErrors, \* what console.error has logged
  escaped,       \* exceptions that left the dispatch callback, unhandled rejections
  lastError,     \* what the last call into the API threw (NoError: it returned)
  hinit,         \* the init a Headers under study was constructed from
  hmap,          \* Headers._headers of the Headers under study
  hlast,         \* history: the last Headers call, the map before it and its result
  heap,          \* the Buffers allocated: buffer identity -> its bytes
  msgs,          \* the Request and Response objects under study
  reads,         \* history: per message, the message it was cloned from and the
                 \* promises its text, arrayBuffer, blob, json and formData calls gave;
                 \* for an exchange, the waitUntil calls made
  awaiting,      \* json() calls suspended at `await this.text()`, handlers suspended
                 \* at `await event.request.text()`
  last           \* history: the last call on a message and what it gave; for an
                 \* exchange, the descriptor the transport delivered

vars ==
  <<handlers, installed, transport, events, replies, microtasks, pc, cur, invocations, dispatched,
    calls, consoleErrors, escaped, lastError, hinit, hmap, hlast, heap, msgs, reads,
    awaiting, last>>

bridgeVars ==
  <<handlers, installed, transport, events, replies, microtasks, pc, cur, invocations, dispatched,
    calls, consoleErrors, escaped, lastError>>
headersVars == <<hinit, hmap, hlast>>
messageVars == <<heap, msgs, reads, awaiting, last>>

serverVars == <<handlers, installed, transport>>
eventVars == <<events, replies, microtasks, calls>>
dispatchVars == <<pc, cur, invocations, dispatched>>

NoDispatch == [x |-> 0, ev |-> 0, i |-> 0, h |-> 0]

\* No call made yet (hlast, last).
NoCall == [op |-> "none"]

\* The bridge before any registration, with no Headers and no message under study.
BridgeInit ==
  /\ handlers = <<>>
  /\ installed = FALSE
  /\ transport = "created"
  /\ events = <<>>
  /\ replies = <<>>
  /\ microtasks = <<>>
  /\ pc = "idle"
  /\ cur = NoDispatch
  /\ invocations = <<>>
  /\ dispatched = <<>>
  /\ calls = <<>>
  /\ consoleErrors = <<>>
  /\ escaped = <<>>
  /\ lastError = NoError

NoHeaders == hinit = Undefined /\ hmap = <<>> /\ hlast = NoCall
NoMessages == heap = <<>> /\ msgs = <<>> /\ reads = <<>> /\ awaiting = <<>> /\ last = NoCall

Init == BridgeInit /\ NoHeaders /\ NoMessages

\* (mutant) promise jobs run while a handler is still on the stack
IdleOrInHandler == pc \in {"idle", "handler"}

\* User code outside a dispatch and outside the promise jobs of this layer runs when the
\* stack is empty; a new task (a transport callback, a timer) starts only once the
\* microtask queue is drained.
Idle == pc = "idle"
TaskBoundary == Idle /\ microtasks = <<>>

\* ------------------------------------------------------------------- Server

\* The registration calls and listen() are made while exchanges are still to come: the
\* handler list is read by dispatches only (the guard on Len(replies) is the bound).

\* Array.prototype.indexOf: the first position of h, 0 when absent.
IndexOf(hs, h) ==
  IF \E i \in 1..Len(hs) : hs[i] = h
    THEN CHOOSE i \in 1..Len(hs) : hs[i] = h /\ \A j \in 1..(i - 1) : hs[j] # h
    ELSE 0

\* (mutant) splice(index): everything from the index on is removed
SpliceFrom(hs, i) == SubSeq(hs, 1, i - 1)

\* Array.prototype.splice(index, 1)
Splice1(hs, i) == SubSeq(hs, 1, i - 1) \o SubSeq(hs, i + 1, Len(hs))

AddEventListener(kind, h) ==
  /\ TaskBoundary
  /\ Len(replies) < MaxExchanges
  /\ IF kind # FetchKind
       THEN /\ lastError' = UnknownEventError(kind)
            /\ UNCHANGED handlers
       ELSE /\ Len(handlers) < MaxHandlers
            /\ handlers' = Append(handlers, h)
            /\ lastError' = NoError
  /\ UNCHANGED <<installed, transport, eventVars, dispatchVars, consoleErrors, escaped>>

RemoveEventListener(kind, h) ==
  /\ TaskBoundary
  /\ Len(replies) < MaxExchanges
  /\ IF kind # FetchKind
       THEN /\ lastError' = UnknownEventError(kind)
            /\ UNCHANGED handlers
       ELSE /\ handlers' = IF IndexOf(handlers, h) # 0
                             THEN Splice1(handlers, IndexOf(handlers, h))
                             ELSE handlers
            /\ lastError' = NoError
  /\ UNCHANGED <<installed, transport, eventVars, dispatchVars, consoleErrors, escaped>>

\* (mutant) listen() without its check of the handler list
ListenNeverRejects(hs) == FALSE

\* if (this._handlers.length === 0) throw ...
ListenRejects(hs) == Len(hs) = 0

\* listen() up to its await: the check, this._native.setHandler(callback), then the
\* call of this._native.listen(). A second listen() on a transport already started is
\* the transport's business and is not modelled.
Listen ==
  /\ TaskBoundary
  /\ Len(replies) < MaxExchanges
  /\ IF ListenRejects(handlers)
       THEN /\ lastError' = NoHandlerError
            /\ UNCHANGED <<installed, transport>>
       ELSE /\ transport = "created"
            /\ installed' = TRUE
            /\ transport' = "starting"
            /\ lastError' = NoError
  /\ UNCHANGED <<handlers, eventVars, dispatchVars, consoleErrors, escaped>>

\* The transport, asked to listen, starts accepting exchanges.
TransportAccepts ==
  /\ TaskBoundary
  /\ transport = "starting"
  /\ transport' = "listening"
  /\ UNCHANGED <<handlers, installed, eventVars, dispatchVars, consoleErrors, escaped,
                 lastError>>

\* --------------------------------------------------------------- FetchEvent

\* One accepted respondWith call: the promise chain it builds and the closure variable
\* responseSent. p0 is Promise.resolve(response), p1 the promise of .then, p2 that of
\* .catch; stage is the reaction the chain waits for.
NewChain(call, arg) ==
  [call |-> call, p0 |-> arg, p1 |-> Pending, p2 |-> Pending,
   stage |-> IF arg.state = "pending" THEN "waiting" ELSE "then",
   responseSent |-> FALSE]

\* new FetchEvent(request, clientAddress, respondCallback), as _fromContext builds it:
\* the callback forwards to the reply function of exchange x.
\* (mutant) the body of the descriptor left out
RequestFromContextNoBody(ctx) ==
  RequestCtor(<<>>, ctx.url,
              [method |-> ctx.method, headers |-> ctx.headers, body |-> Undefined])

\* Request._fromContext: the constructor gets the method and the header pairs, the
\* body Buffer of the descriptor is then stored as it is.
RequestFromContext(ctx) ==
  [RequestCtor(<<>>, ctx.url,
               [method |-> ctx.method, headers |-> ctx.headers, body |-> Undefined])
     EXCEPT !.body = Coalesce(ctx.body, Null)]

\* FetchEvent._fromContext for the descriptor ctx of exchange x: the event's reply
\* sink is a closure over ctx that calls ctx.respond, the reply function of x.
FromContext(x, ctx) ==
  [ctx |-> x, request |-> RequestFromContext(ctx), clientAddress |-> ctx.clientAddress,
   responded |-> FALSE, chains |-> <<>>, waitUntil |-> <<>>]

\* (mutant) waitUntil putting the promise in front of the list
WaitUntilPrepends(ev, p) == [ev EXCEPT !.waitUntil = <<p>> \o @]

\* waitUntil(promise): this._waitUntilPromises.push(promise)
WaitUntil(ev, p) == [ev EXCEPT !.waitUntil = Append(@, p)]

\* (mutant) the responded check left out
AlreadyRespondedNever(ev) == FALSE

\* if (this._responded) throw ...
AlreadyResponded(ev) == ev.responded

\* (mutant) the flag not set in the call itself, only once the reply has been sent
ClaimFlagNotSet(ev) == ev

\* this._responded = true
ClaimFlag(ev) == [ev EXCEPT !.responded = TRUE]

\* (mutant) one reply function shared by all events: that of the first exchange
InvokeFirstSink(rs, e, c, wire, threw) ==
  [rs EXCEPT ![1] = Append(@, [wire |-> wire, threw |-> threw, ev |-> e, ch |-> c])]

\* this._respondCallback(wire): ctx.respond of the event's own exchange is invoked; the
\* transport's function returns or throws.
InvokeSink(rs, e, c, wire, threw) ==
  [rs EXCEPT ![events[e].ctx] = Append(@, [wire |-> wire, threw |-> threw, ev |-> e, ch |-> c])]

\* respondWith(response), called on event e with the argument in state arg.
RespondWith(e, arg) ==
  /\ calls' = [calls EXCEPT ![e] =
       Append(@, [arg |-> arg, accepted |-> ~AlreadyResponded(events[e])])]
  /\ IF AlreadyResponded(events[e])
       THEN /\ lastError' = AlreadyRespondedError
            /\ UNCHANGED <<events, microtasks>>
       ELSE /\ lastError' = NoError
            /\ events' = [events EXCEPT ![e] =
                 [ClaimFlag(@) EXCEPT !.chains = Append(@, NewChain(Len(calls[e]) + 1, arg))]]
            /\ microtasks' =
                 IF arg.state = "pending" THEN microtasks
                 ELSE Append(microtasks, [ev |-> e, ch |-> Len(events[e].chains) + 1])

\* The promise passed to respondWith settles (user code, or the engine, settles it).
SettleArgument(e, c, outcome) ==
  /\ Idle
  /\ e \in 1..Len(events)
  /\ c \in 1..Len(events[e].chains)
  /\ events[e].chains[c].stage = "waiting"
  /\ events' = [events EXCEPT ![e].chains[c] = [@ EXCEPT !.p0 = outcome, !.stage = "then"]]
  /\ microtasks' = Append(microtasks, [ev |-> e, ch |-> c])
  /\ UNCHANGED <<serverVars, replies, calls, dispatchVars, consoleErrors, escaped, lastError>>

\* (mutant) the error itself interpolated, not its message
ErrorResponseTextOfError(error) == InternalServerErrorPrefix \o ToStringJS(error)

\* The body of the try block of the .catch callback: the text of the synthetic response.
ErrorResponseText(error) == InternalServerErrorPrefix \o ToStringJS(MessageOf(error))

ErrorResponse(error) ==
  ResponseCtor(Str(ErrorResponseText(error)),
               [status |-> Num(500), statusText |-> Undefined, headers |-> Undefined])

\* (mutant) a .then callback that fails after the reply function has returned
ThenOutcomeFailsLate(threw) == Rejected(SinkError)

\* What the .then callback settles p1 with when the reply function threw: the callback
\* has no try, so the exception rejects p1 and responseSent stays false.
ThenOutcome(threw) == IF threw THEN Rejected(SinkError) ELSE Fulfilled(Undefined)

\* (mutant) the .catch callback without its try block
CatchOutcomeNoTry(threwInTry) ==
  IF threwInTry THEN Rejected(SinkError) ELSE Fulfilled(Undefined)

\* What the .catch callback settles p2 with: every throw inside it happens in its try
\* block and is caught, so the callback returns.
CatchOutcome(threwInTry) == Fulfilled(Undefined)

\* The reaction job of .then((res) => {...}) on p0.
ThenReaction ==
  /\ Idle
  /\ microtasks # <<>>
  /\ LET e == Head(microtasks).ev
         c == Head(microtasks).ch
         chain == events[e].chains[c]
     IN /\ chain.stage = "then"
        /\ IF chain.p0.state = "rejected"
             \* no onRejected: the rejection passes through to p1
             THEN /\ events' = [events EXCEPT ![e].chains[c] =
                       [@ EXCEPT !.p1 = chain.p0, !.stage = "catch"]]
                  /\ UNCHANGED replies
           ELSE IF chain.p0.value.t # "Response"
             \* res._toJsResponse is not callable: a TypeError before the reply function
             THEN /\ events' = [events EXCEPT ![e].chains[c] =
                       [@ EXCEPT !.p1 = Rejected(TypeErrorValue), !.stage = "catch"]]
                  /\ UNCHANGED replies
           ELSE \E threw \in BOOLEAN :
                  /\ replies' = InvokeSink(replies, e, c, ToJsResponse(chain.p0.value), threw)
                  /\ events' = [events EXCEPT ![e].chains[c] =
                       [@ EXCEPT !.p1 = ThenOutcome(threw), !.stage = "catch",
                                 !.responseSent = ~threw]]
        /\ microtasks' = Append(Tail(microtasks), [ev |-> e, ch |-> c])
  /\ UNCHANGED <<serverVars, calls, dispatchVars, consoleErrors, escaped, lastError>>

\* Settling p2, which nothing observes: a rejection of it is an unhandled rejection.
SettleLast(e, c, outcome) ==
  /\ events' = [events EXCEPT ![e].chains[c] = [@ EXCEPT !.p2 = outcome, !.stage = "done"]]
  /\ escaped' = IF outcome.state = "rejected"
                  THEN Append(escaped, [kind |-> "unhandledRejection", x |-> events[e].ctx])
                  ELSE escaped

\* The reaction job of .catch((error) => {...}) on p1.
CatchReaction ==
  /\ Idle
  /\ microtasks # <<>>
  /\ LET e == Head(microtasks).ev
         c == Head(microtasks).ch
         chain == events[e].chains[c]
         error == chain.p1.value
     IN /\ chain.stage = "catch"
        /\ IF chain.p1.state = "fulfilled"
             \* no onFulfilled: the value passes through to p2
             THEN /\ SettleLast(e, c, chain.p1)
                  /\ UNCHANGED <<replies, consoleErrors>>
           ELSE IF chain.responseSent
             THEN /\ SettleLast(e, c, Fulfilled(Undefined))
                  /\ consoleErrors' = Append(consoleErrors, [kind |-> "afterSent", x |-> events[e].ctx])
                  /\ UNCHANGED replies
           ELSE IF PropertyReadThrows(error)
             \* error.message throws inside the try: nothing is sent
             THEN /\ SettleLast(e, c, CatchOutcome(TRUE))
                  /\ consoleErrors' = Append(consoleErrors, [kind |-> "failedSend", x |-> events[e].ctx])
                  /\ UNCHANGED replies
           ELSE \E threw \in BOOLEAN :
                  /\ replies' = InvokeSink(replies, e, c, ToJsResponse(ErrorResponse(error)), threw)
                  /\ SettleLast(e, c, CatchOutcome(threw))
                  /\ consoleErrors' =
                       IF threw
                         THEN Append(consoleErrors, [kind |-> "failedSend", x |-> events[e].ctx])
                         ELSE consoleErrors
        /\ microtasks' = Tail(microtasks)
  /\ UNCHANGED <<serverVars, calls, dispatchVars, lastError>>

\* ----------------------------------------------------- the dispatch callback

\* The transport delivers exchange x, described by ctx, to the callback listen()
\* installed: const event = FetchEvent._fromContext(ctx), then the for-of loop starts.
DispatchBegin(ctx) ==
  /\ TaskBoundary
  /\ installed
  /\ transport = "listening"
  /\ LET x == Len(replies) + 1
     IN /\ replies' = Append(replies, <<>>)
        /\ events' = Append(events, FromContext(x, ctx))
        /\ calls' = Append(calls, <<>>)
        /\ dispatched' = Append(dispatched, handlers)
        /\ cur' = [x |-> x, ev |-> Len(events) + 1, i |-> 0, h |-> 0]
  /\ pc' = "loop"
  /\ UNCHANGED <<serverVars, microtasks, invocations, consoleErrors, escaped, lastError>>

\* (mutant) a loop that stops one handler short
LoopStopsEarly(i) == i + 1 < Len(handlers)

\* The array iterator of `for (const handler of this._handlers)`: it reads the live
\* array's length at every step.
LoopHasNext(i) == i < Len(handlers)

\* One step of the loop: handler(event) is called, or the loop and the callback end.
DispatchNext ==
  /\ pc = "loop"
  /\ IF LoopHasNext(cur.i)
       THEN /\ cur' = [cur EXCEPT !.i = @ + 1, !.h = handlers[cur.i + 1]]
            /\ invocations' = Append(invocations,
                 [x |-> cur.x, ev |-> cur.ev, h |-> handlers[cur.i + 1], threw |-> FALSE])
            /\ pc' = "handler"
       ELSE /\ cur' = NoDispatch
            /\ pc' = "idle"
            /\ UNCHANGED invocations
  /\ UNCHANGED <<serverVars, eventVars, dispatched, consoleErrors, escaped, lastError>>

\* (mutant) a catch block that answers the exchange itself with a 500 response
DispatchCatchReplies ==
  /\ consoleErrors' = Append(consoleErrors, [kind |-> "handler", x |-> cur.x])
  /\ replies' = [replies EXCEPT ![cur.x] =
       Append(@, [wire |-> ToJsResponse(ErrorResponse(TypeErrorValue)), threw |-> FALSE,
                  ev |-> cur.ev, ch |-> 0])]
  /\ pc' = "loop"
  /\ UNCHANGED <<escaped, cur>>

\* (mutant) no try around handler(event): the exception ends the loop and leaves the
\* dispatch callback
DispatchCatchPropagates ==
  /\ escaped' = Append(escaped, [kind |-> "dispatch", x |-> cur.x])
  /\ pc' = "idle"
  /\ cur' = NoDispatch
  /\ UNCHANGED <<consoleErrors, replies>>

\* catch (error) { console.error('Error in fetch handler:', error); }
DispatchCatch ==
  /\ consoleErrors' = Append(consoleErrors, [kind |-> "handler", x |-> cur.x])
  /\ pc' = "loop"
  /\ UNCHANGED <<escaped, cur, replies>>

\* handler(event) ends by throwing: control passes to the catch block of the loop.
\* (history: the invocation is marked as having thrown)
HandlerThrew ==
  /\ invocations' = [invocations EXCEPT ![Len(invocations)].threw = TRUE]
  /\ DispatchCatch

\* The running handler throws synchronously.
HandlerThrow ==
  /\ pc = "handler"
  /\ HandlerThrew
  /\ UNCHANGED <<serverVars, events, microtasks, calls, dispatched, lastError>>

\* The running handler returns (an async handler: at its first await).
HandlerReturn ==
  /\ pc = "handler"
  /\ pc' = "loop"
  /\ UNCHANGED <<serverVars, eventVars, cur, invocations, dispatched, consoleErrors, escaped,
                  lastError>>

\* The running handler calls event.respondWith(arg). If the call throws, the handler
\* either catches the error and goes on, or lets it propagate to the dispatch loop.
HandlerRespondWith(arg, catches) ==
  /\ pc = "handler"
  /\ Len(calls[cur.ev]) < MaxCalls
  /\ RespondWith(cur.ev, arg)
  /\ IF lastError' # NoError /\ ~catches
       THEN HandlerThrew
       ELSE UNCHANGED <<pc, cur, replies, invocations, consoleErrors, escaped>>
  /\ UNCHANGED <<serverVars, dispatched>>

\* Code a handler left running (the continuation of an await, a timer) calls
\* event.respondWith(arg) on an event it was given, after the dispatch returned.
LateRespondWith(e, arg) ==
  /\ Idle
  /\ e \in 1..Len(events)
  /\ \E k \in 1..Len(invocations) : invocations[k].ev = e
  /\ Len(calls[e]) < MaxCalls
  /\ RespondWith(e, arg)
  /\ UNCHANGED <<serverVars, replies, dispatchVars, consoleErrors, escaped>>

\* A step of the bridge leaves the Headers and messages under study alone.
Next ==
  \/ \E kind \in EventKinds, h \in HandlerIds :
       AddEventListener(kind, h) /\ UNCHANGED <<headersVars, messageVars>>
  \/ \E kind \in EventKinds, h \in HandlerIds :
       RemoveEventListener(kind, h) /\ UNCHANGED <<headersVars, messageVars>>
  \/ Listen /\ UNCHANGED <<headersVars, messageVars>>
  \/ TransportAccepts /\ UNCHANGED <<headersVars, messageVars>>
  \/ Len(replies) < MaxExchanges /\ DispatchBegin(PlainContext)
       /\ UNCHANGED <<headersVars, messageVars>>
  \/ DispatchNext /\ UNCHANGED <<headersVars, messageVars>>
  \/ HandlerThrow /\ UNCHANGED <<headersVars, messageVars>>
  \/ HandlerReturn /\ UNCHANGED <<headersVars, messageVars>>
  \/ \E arg \in Arguments, catches \in BOOLEAN :
       HandlerRespondWith(arg, catches) /\ UNCHANGED <<headersVars, messageVars>>
  \/ \E e \in 1..MaxExchanges, arg \in Arguments :
       LateRespondWith(e, arg) /\ UNCHANGED <<headersVars, messageVars>>
  \/ \E e \in 1..MaxExchanges, c \in 1..MaxCalls, o \in Outcomes :
       SettleArgument(e, c, o) /\ UNCHANGED <<headersVars, messageVars>>
  \/ ThenReaction /\ UNCHANGED <<headersVars, messageVars>>
  \/ CatchReaction /\ UNCHANGED <<headersVars, messageVars>>

Spec == Init /\ [][Next]_vars

\* ------------------------------------------------- a Headers under study

\* User code constructs a Headers from one of the inits and then calls it.
HeadersInit ==
  /\ BridgeInit
  /\ NoMessages
  /\ hinit \in HeaderInits
  /\ hmap = <<>>
  /\ hlast = NoCall

NewHeaders ==
  /\ hlast = NoCall
  /\ hmap' = HeadersCtor(hinit)
  /\ hlast' = [op |-> "new", n |-> 0]
  /\ UNCHANGED <<hinit, bridgeVars, messageVars>>

HeadersCall(op, name, value, result) ==
  /\ hlast # NoCall
  /\ hlast.n < MaxHeaderOps
  /\ hlast' = [op |-> op, name |-> name, value |-> value, before |-> hmap,
               result |-> result, n |-> hlast.n + 1]
  /\ UNCHANGED <<hinit, bridgeVars, messageVars>>

CallSet(name, value) ==
  /\ hmap' = HeadersSet(hmap, name, value)
  /\ HeadersCall("set", name, value, Undefined)

CallAppend(name, value) ==
  /\ hmap' = HeadersAppend(hmap, name, value)
  /\ HeadersCall("append", name, value, Undefined)

CallDelete(name) ==
  /\ hmap' = HeadersDelete(hmap, name)
  /\ HeadersCall("delete", name, EmptyText, Undefined)

CallGet(name) ==
  /\ hmap' = hmap
  /\ HeadersCall("get", name, EmptyText, HeadersGet(hmap, name))

CallHas(name) ==
  /\ hmap' = hmap
  /\ HeadersCall("has", name, EmptyText, HeadersHas(hmap, name))

HeadersNext ==
  \/ NewHeaders
  \/ \E name \in HeaderNames, value \in HeaderValues : CallSet(name, value)
  \/ \E name \in HeaderNames, value \in HeaderValues : CallAppend(name, value)
  \/ \E name \in HeaderNames : CallDelete(name)
  \/ \E name \in HeaderNames : CallGet(name)
  \/ \E name \in HeaderNames : CallHas(name)

SpecHeaders == HeadersInit /\ [][HeadersNext]_vars

\* ------------------------------------- Requests and Responses under study

\* User code holds a Buffer, constructs a Request or a Response and calls it and its
\* clones. Every call is made and returns within one task; a json() call is resumed
\* after its `await` by a later microtask, other calls may come first.
MessagesInit ==
  /\ BridgeInit
  /\ NoHeaders
  /\ heap \in {<<bs>> : bs \in UserBuffers}
  /\ msgs = <<>>
  /\ reads = <<>>
  /\ awaiting = <<>>
  /\ last = NoCall

MessageIds == 1..Len(msgs)

Constructed(op, args, o) ==
  /\ msgs = <<>>
  /\ heap' = Stored(heap, o).heap
  /\ msgs' = <<Stored(heap, o).obj>>
  /\ reads' = <<[of |-> 0, calls |-> <<>>]>>
  /\ last' = [op |-> op, m |-> 1, args |-> args, result |-> Undefined, n |-> 0]
  /\ UNCHANGED <<awaiting, bridgeVars, headersVars>>

NewRequest(body) ==
  Constructed("new", body, RequestCtor(heap, Str(<<47>>),
                          [method |-> Undefined, headers |-> MessageHeaders, body |-> body]))

NewResponse(body) ==
  Constructed("new", body, ResponseCtor(body, [status |-> Undefined, statusText |-> Undefined,
                                  headers |-> MessageHeaders]))

MessageCall(op, i, result) ==
  /\ last # NoCall
  /\ last.n < MaxBodyCalls
  /\ last' = [op |-> op, m |-> i, result |-> result, n |-> last.n + 1]
  /\ UNCHANGED <<bridgeVars, headersVars>>

\* A call of text(), arrayBuffer() or blob() on message i, r being what it gives.
CallRead(op, i, r) ==
  /\ msgs' = [msgs EXCEPT ![i] = r.obj]
  /\ reads' = [reads EXCEPT ![i].calls = Append(@, [op |-> op, promise |-> r.promise])]
  /\ MessageCall(op, i, r.promise)
  /\ UNCHANGED <<heap, awaiting>>

CallText(i) == CallRead("text", i, Text(heap, msgs[i]))
CallArrayBuffer(i) == CallRead("arrayBuffer", i, ArrayBufferOf(heap, msgs[i]))
CallBlob(i) == CallRead("blob", i, Blob(heap, msgs[i]))

\* json() runs to its `await`: text() has been called, the promise json() returned is
\* pending.
CallJson(i) ==
  LET r == Text(heap, msgs[i])
  IN /\ msgs' = [msgs EXCEPT ![i] = r.obj]
     /\ reads' = [reads EXCEPT ![i].calls = Append(@, [op |-> "json", promise |-> Pending])]
     /\ awaiting' = Append(awaiting, [m |-> i, k |-> Len(reads[i].calls) + 1,
                                      awaited |-> r.promise])
     /\ MessageCall("json", i, Pending)
     /\ UNCHANGED heap

\* The microtask that resumes the oldest suspended json() call.
JsonResume ==
  /\ awaiting # <<>>
  /\ reads' = [reads EXCEPT ![awaiting[1].m].calls[awaiting[1].k].promise =
                              JsonResumed(awaiting[1].awaited)]
  /\ awaiting' = Tail(awaiting)
  /\ UNCHANGED <<heap, msgs, last, bridgeVars, headersVars>>

CallFormData(i) ==
  /\ reads' = [reads EXCEPT ![i].calls =
                              Append(@, [op |-> "formData", promise |-> FormData(msgs[i])])]
  /\ MessageCall("formData", i, FormData(msgs[i]))
  /\ UNCHANGED <<heap, msgs, awaiting>>

GetBody(i) ==
  /\ MessageCall("body", i, BodyStream(heap, msgs[i]))
  /\ UNCHANGED <<heap, msgs, reads, awaiting>>

CallClone(i) ==
  IF CloneThrows(msgs[i])
    THEN /\ MessageCall("clone", i, [t |-> "thrown", error |-> CloneError(msgs[i])])
         /\ UNCHANGED <<heap, msgs, reads, awaiting>>
    ELSE /\ Len(msgs) < MaxMessages
         /\ heap' = Stored(heap, Clone(heap, msgs[i])).heap
         /\ msgs' = Append(msgs, Stored(heap, Clone(heap, msgs[i])).obj)
         /\ reads' = Append(reads, [of |-> i, calls |-> <<>>])
         /\ MessageCall("clone", i, [t |-> "message", id |-> Len(msgs) + 1])
         /\ UNCHANGED awaiting

CallToJsResponse(i) ==
  /\ msgs[i].t = "Response"
  /\ MessageCall("_toJsResponse", i, ToJsResponse(msgs[i]))
  /\ UNCHANGED <<heap, msgs, reads, awaiting>>

\* message.headers.set(name, value)
CallHeadersSet(i, name, value) ==
  /\ msgs' = [msgs EXCEPT ![i].headers = HeadersSet(@, name, value)]
  /\ MessageCall("headers.set", i, Undefined)
  /\ UNCHANGED <<heap, reads, awaiting>>

\* The user writes a byte ("Z") into the Buffer it holds.
WriteBuffer ==
  /\ heap[UserBuffer.id][1] # 90
  /\ heap' = [heap EXCEPT ![UserBuffer.id][1] = 90]
  /\ UNCHANGED <<msgs, reads, awaiting, last, bridgeVars, headersVars>>

MessagesNext ==
  \/ \E body \in BodyInits : NewRequest(body)
  \/ \E body \in BodyInits : NewResponse(body)
  \/ \E i \in MessageIds : CallText(i)
  \/ \E i \in MessageIds : CallArrayBuffer(i)
  \/ \E i \in MessageIds : CallBlob(i)
  \/ \E i \in MessageIds : CallJson(i)
  \/ JsonResume
  \/ \E i \in MessageIds : CallFormData(i)
  \/ \E i \in MessageIds : GetBody(i)
  \/ \E i \in MessageIds : CallClone(i)
  \/ \E i \in MessageIds : CallToJsResponse(i)
  \/ \E i \in MessageIds : CallHeadersSet(i, LowerXA, TwoText)
  \/ WriteBuffer

SpecMessages == MessagesInit /\ [][MessagesNext]_vars

\* ------------------------------------------ messages made from other values

\* User code makes one message, by new Request, Response.json or Response.redirect,
\* reads it, and constructs Requests from a Request.
NewResponseJson(data, init) ==
  Constructed("Response.json", [data |-> data, init |-> init], ResponseJson(data, init))

NewRedirect(url, status) ==
  IF RedirectThrows(status)
    THEN /\ msgs = <<>>
         /\ last = NoCall
         /\ last' = [op |-> "Response.redirect", m |-> 0,
                     args |-> [url |-> url, status |-> status],
                     result |-> [t |-> "thrown", error |-> RedirectError(status)], n |-> 0]
         /\ UNCHANGED <<heap, msgs, reads, awaiting, bridgeVars, headersVars>>
    ELSE Constructed("Response.redirect", [url |-> url, status |-> status],
                     ResponseRedirect(url, status))

\* new Request(msgs[i], init)
NewRequestFrom(i, init) ==
  /\ msgs[i].t = "Request"
  /\ Len(msgs) < MaxMessages
  /\ heap' = Stored(heap, RequestCtor(heap, msgs[i], init)).heap
  /\ msgs' = Append(msgs, Stored(heap, RequestCtor(heap, msgs[i], init)).obj)
  /\ reads' = Append(reads, [of |-> 0, calls |-> <<>>])
  /\ last # NoCall
  /\ last.n < MaxBodyCalls
  /\ last' = [op |-> "new Request", m |-> i, args |-> init,
              result |-> [t |-> "message", id |-> Len(msgs) + 1], n |-> last.n + 1]
  /\ UNCHANGED <<awaiting, bridgeVars, headersVars>>

FactoriesNext ==
  \/ \E body \in BodyInits : NewRequest(body)
  \/ \E data \in JsonData, init \in JsonInits : NewResponseJson(data, init)
  \/ \E status \in RedirectInputs : NewRedirect(Str(<<47>>), status)
  \/ \E i \in MessageIds, init \in RequestInits : NewRequestFrom(i, init)
  \/ \E i \in MessageIds : CallText(i)
  \/ \E i \in MessageIds : CallJson(i)
  \/ JsonResume

SpecFactories == MessagesInit /\ [][FactoriesNext]_vars

\* ------------------------- handlers that register, handlers that are async

\* Handlers call addEventListener and removeEventListener on the server while the
\* dispatch loop that invoked them is running, and handlers are async functions whose
\* promise the loop receives (history: the registration calls are kept in reads).

\* The running handler calls server.addEventListener("fetch", h).
HandlerAdds(h) ==
  /\ pc = "handler"
  /\ Len(reads) < MaxRegistrations
  /\ Len(handlers) < MaxHandlers
  /\ handlers' = Append(handlers, h)
  /\ lastError' = NoError
  /\ reads' = Append(reads, [op |-> "add", h |-> h, x |-> cur.x])
  /\ UNCHANGED <<installed, transport, eventVars, dispatchVars, consoleErrors, escaped>>
  /\ UNCHANGED <<headersVars, heap, msgs, awaiting, last>>

\* The running handler calls server.removeEventListener("fetch", h).
HandlerRemoves(h) ==
  /\ pc = "handler"
  /\ Len(reads) < MaxRegistrations
  /\ handlers' = IF IndexOf(handlers, h) # 0
                   THEN Splice1(handlers, IndexOf(handlers, h))
                   ELSE handlers
  /\ lastError' = NoError
  /\ reads' = Append(reads, [op |-> "remove", h |-> h, x |-> cur.x])
  /\ UNCHANGED <<installed, transport, eventVars, dispatchVars, consoleErrors, escaped>>
  /\ UNCHANGED <<headersVars, heap, msgs, awaiting, last>>

\* handler(event) for an async handler whose body throws: the call returns a rejected
\* promise. The loop's try sees no exception and the loop keeps no reference to the
\* promise, so nothing ever handles the rejection.
AsyncHandlerFailed ==
  /\ escaped' = Append(escaped, [kind |-> "handlerRejection", x |-> cur.x])
  /\ pc' = "loop"

\* The running async handler throws (before any respondWith call of its own).
AsyncHandlerThrows ==
  /\ pc = "handler"
  /\ AsyncHandlerFailed
  /\ UNCHANGED <<serverVars, eventVars, cur, invocations, dispatched, consoleErrors,
                 lastError>>
  /\ UNCHANGED <<headersVars, messageVars>>

\* The running async handler calls event.respondWith(arg) and does not catch: when
\* the call throws (the event has been claimed), the handler's promise is rejected.
AsyncHandlerRespondWith(arg) ==
  /\ pc = "handler"
  /\ Len(calls[cur.ev]) < MaxCalls
  /\ RespondWith(cur.ev, arg)
  /\ IF lastError' # NoError THEN AsyncHandlerFailed ELSE UNCHANGED <<pc, escaped>>
  /\ UNCHANGED <<serverVars, replies, cur, invocations, dispatched, consoleErrors>>
  /\ UNCHANGED <<headersVars, messageVars>>

HandlersNext ==
  \/ \E h \in HandlerIds :
       AddEventListener(FetchKind, h) /\ UNCHANGED <<headersVars, messageVars>>
  \/ Listen /\ UNCHANGED <<headersVars, messageVars>>
  \/ TransportAccepts /\ UNCHANGED <<headersVars, messageVars>>
  \/ Len(replies) < MaxExchanges /\ DispatchBegin(PlainContext)
       /\ UNCHANGED <<headersVars, messageVars>>
  \/ DispatchNext /\ UNCHANGED <<headersVars, messageVars>>
  \/ HandlerReturn /\ UNCHANGED <<headersVars, messageVars>>
  \/ \E h \in HandlerIds : HandlerAdds(h)
  \/ \E h \in HandlerIds : HandlerRemoves(h)
  \/ AsyncHandlerThrows
  \/ AsyncHandlerRespondWith(Fulfilled(ResponseHi))
  \/ ThenReaction /\ UNCHANGED <<headersVars, messageVars>>
  \/ CatchReaction /\ UNCHANGED <<headersVars, messageVars>>

SpecHandlers == Init /\ [][HandlersNext]_vars

\* ------------------------------- a Request and a Response, side by side

\* User code makes a Request and a Response from one body input and makes the same
\* calls on both.
PairConstructed(body) ==
  LET request == Stored(heap, RequestCtor(heap, Str(<<47>>),
                   [method |-> Undefined, headers |-> MessageHeaders, body |-> body]))
      response == Stored(request.heap, ResponseCtor(body,
                   [status |-> Undefined, statusText |-> Undefined, headers |-> MessageHeaders]))
  IN /\ msgs = <<>>
     /\ heap' = response.heap
     /\ msgs' = <<request.obj, response.obj>>
     /\ last' = [op |-> "new", args |-> body, results |-> <<>>, n |-> 0]
     /\ UNCHANGED <<reads, awaiting, bridgeVars, headersVars>>

\* What the call op on message o gives, and o after it: the promise as it settles (for
\* json(), after its resumption), the value of the body getter, or for clone() the
\* exception thrown or the body the new message holds.
CapsuleResult(h, o, op) ==
  CASE op = "text" -> [result |-> Text(h, o).promise, obj |-> Text(h, o).obj]
    [] op = "arrayBuffer" -> [result |-> ArrayBufferOf(h, o).promise, obj |-> ArrayBufferOf(h, o).obj]
    [] op = "blob" -> [result |-> Blob(h, o).promise, obj |-> Blob(h, o).obj]
    [] op = "json" -> [result |-> JsonResumed(Text(h, o).promise), obj |-> Text(h, o).obj]
    [] op = "formData" -> [result |-> FormData(o), obj |-> o]
    [] op = "body" -> [result |-> BodyStream(h, o), obj |-> o]
    [] op = "clone" ->
         [result |-> IF CloneThrows(o) THEN [t |-> "thrown"]
                     ELSE [t |-> "message", bodyUsed |-> Clone(h, o).bodyUsed,
                           body |-> IF Clone(h, o).body = Null THEN Null
                                    ELSE Bytes(BodyBytes(h, Clone(h, o)))],
          obj |-> o]

PairCall(op) ==
  /\ msgs # <<>>
  /\ last.n < MaxBodyCalls
  /\ msgs' = [i \in 1..2 |-> CapsuleResult(heap, msgs[i], op).obj]
  /\ last' = [op |-> op, args |-> Undefined,
              results |-> [i \in 1..2 |-> CapsuleResult(heap, msgs[i], op).result],
              n |-> last.n + 1]
  /\ UNCHANGED <<heap, reads, awaiting, bridgeVars, headersVars>>

CapsuleNext ==
  \/ \E body \in BodyInits : PairConstructed(body)
  \/ \E op \in {"text", "arrayBuffer", "blob", "json", "formData", "body", "clone"} :
       PairCall(op)
  \/ WriteBuffer

SpecCapsule == MessagesInit /\ [][CapsuleNext]_vars

\* ------------------------------------- one exchange through an echo handler

\* The echo server of the end-to-end test: one handler,
\*   async (event) => { const body = await event.request.text();
\*                      event.respondWith(new Response(body)); }
\* is registered, the server listens, the transport delivers an exchange, and user
\* code calls waitUntil on the event and close() on the server.

\* The exchange is delivered (history: the descriptors delivered are kept in last).
ExchangeBegin(ctx) ==
  /\ Len(replies) < MaxExchanges
  /\ DispatchBegin(ctx)
  /\ last' = [op |-> "exchange",
              ctxs |-> IF last.op = "exchange" THEN Append(last.ctxs, ctx) ELSE <<ctx>>]
  /\ UNCHANGED <<headersVars, heap, msgs, reads, awaiting>>

\* The handler runs up to its await: event.request.text() is called and the handler
\* returns its promise to the dispatch loop; its continuation waits for the text.
EchoAwaitText ==
  /\ pc = "handler"
  /\ LET r == Text(heap, events[cur.ev].request)
     IN /\ events' = [events EXCEPT ![cur.ev].request = r.obj]
        /\ awaiting' = Append(awaiting, [ev |-> cur.ev, awaited |-> r.promise])
  /\ pc' = "loop"
  /\ UNCHANGED <<serverVars, replies, microtasks, calls, cur, invocations, dispatched,
                 consoleErrors, escaped, lastError>>
  /\ UNCHANGED <<headersVars, heap, msgs, reads, last>>

\* The continuation of the handler: event.respondWith(new Response(body)).
EchoResume ==
  /\ Idle
  /\ awaiting # <<>>
  /\ Head(awaiting).awaited.state = "fulfilled"
  /\ RespondWith(Head(awaiting).ev,
                 Fulfilled(ResponseCtor(Head(awaiting).awaited.value, NoInit)))
  /\ awaiting' = Tail(awaiting)
  /\ UNCHANGED <<serverVars, replies, dispatchVars, consoleErrors, escaped>>
  /\ UNCHANGED <<headersVars, heap, msgs, reads, last>>

\* The promise with identity id as user code passes it to waitUntil: in the state it
\* was registered in before, else in state s.
BackgroundPromise(id, s) ==
  LET known == {p \in UNION {{events[e].waitUntil[k] : k \in 1..Len(events[e].waitUntil)} :
                               e \in 1..Len(events)} : p.id = id}
  IN [id |-> id, state |-> IF known = {} THEN s ELSE (CHOOSE p \in known : TRUE).state]

\* User code calls event.waitUntil(p): the running handler before its await, or code
\* the handler left running, at any later point (history: the call is kept in reads,
\* with what the event had done when it was made).
CallWaitUntil(e, id, s) ==
  /\ \/ pc = "handler" /\ e = cur.ev
     \/ Idle /\ \E k \in 1..Len(invocations) : invocations[k].ev = e
  /\ e \in 1..Len(events)
  /\ Len(events[e].waitUntil) < MaxWaits
  /\ events' = [events EXCEPT ![e] = WaitUntil(@, BackgroundPromise(id, s))]
  /\ lastError' = NoError
  /\ reads' = Append(reads, [ev |-> e, id |-> id, responded |-> events[e].responded,
                             sent |-> replies[events[e].ctx] # <<>>])
  /\ UNCHANGED <<serverVars, replies, microtasks, calls, dispatchVars, consoleErrors,
                 escaped>>
  /\ UNCHANGED <<headersVars, heap, msgs, awaiting, last>>

\* A background promise settles (user code's work ends).
SettleBackground(id) ==
  /\ Idle
  /\ BackgroundPromise(id, "fulfilled").state = "pending"
  /\ events' = [e \in 1..Len(events) |->
       [events[e] EXCEPT !.waitUntil =
          [k \in 1..Len(events[e].waitUntil) |->
             IF events[e].waitUntil[k].id = id
               THEN [id |-> id, state |-> "fulfilled"]
               ELSE events[e].waitUntil[k]]]]
  /\ UNCHANGED <<serverVars, replies, microtasks, calls, dispatchVars, consoleErrors,
                 escaped, lastError>>
  /\ UNCHANGED <<headersVars, messageVars>>

\* close() up to its await: this._native.close() is called.
Close ==
  /\ Idle
  /\ transport = "listening"
  /\ transport' = "closing"
  /\ UNCHANGED <<handlers, installed, eventVars, dispatchVars, consoleErrors, escaped,
                 lastError>>
  /\ UNCHANGED <<headersVars, messageVars>>

\* The transport has shut down and close() returns. The transport is taken to shut
\* down gracefully: no sooner than every exchange it delivered has been answered. The
\* background promises are held by the FetchEvents alone and are not its to wait for.
CloseDone ==
  /\ Idle
  /\ transport = "closing"
  /\ \A x \in 1..Len(replies) : replies[x] # <<>>
  /\ transport' = "closed"
  /\ UNCHANGED <<handlers, installed, eventVars, dispatchVars, consoleErrors, escaped,
                 lastError>>
  /\ UNCHANGED <<headersVars, messageVars>>

ExchangeNext ==
  \/ handlers = <<>> /\ AddEventListener(FetchKind, 1) /\ UNCHANGED <<headersVars, messageVars>>
  \/ Listen /\ UNCHANGED <<headersVars, messageVars>>
  \/ TransportAccepts /\ UNCHANGED <<headersVars, messageVars>>
  \/ \E ctx \in Contexts : ExchangeBegin(ctx)
  \/ DispatchNext /\ UNCHANGED <<headersVars, messageVars>>
  \/ \E e \in 1..MaxExchanges, id \in BackgroundIds, s \in BackgroundStates :
       CallWaitUntil(e, id, s)
  \/ \E id \in BackgroundIds : SettleBackground(id)
  \/ EchoAwaitText
  \/ EchoResume
  \/ ThenReaction /\ UNCHANGED <<headersVars, messageVars>>
  \/ CatchReaction /\ UNCHANGED <<headersVars, messageVars>>
  \/ Close
  \/ CloseDone

SpecExchange == Init /\ [][ExchangeNext]_vars

\* ----------------------------------------------- exchanges that interleave

\* One handler is registered; it passes respondWith a Response or a promise it
\* settles later, and calls waitUntil. The transport delivers the next exchange while
\* earlier exchanges wait for their promises.
InterleavedNext ==
  \/ handlers = <<>> /\ AddEventListener(FetchKind, 1) /\ UNCHANGED <<headersVars, messageVars>>
  \/ Listen /\ UNCHANGED <<headersVars, messageVars>>
  \/ TransportAccepts /\ UNCHANGED <<headersVars, messageVars>>
  \/ Len(replies) < MaxInterleaved /\ DispatchBegin(PlainContext)
       /\ UNCHANGED <<headersVars, messageVars>>
  \/ DispatchNext /\ UNCHANGED <<headersVars, messageVars>>
  \/ HandlerReturn /\ UNCHANGED <<headersVars, messageVars>>
  \/ \E arg \in {Pending, Fulfilled(ResponseHi)} :
       pc = "handler" /\ calls[cur.ev] = <<>> /\ HandlerRespondWith(arg, TRUE)
         /\ UNCHANGED <<headersVars, messageVars>>
  \/ \E e \in 1..MaxInterleaved :
       SettleArgument(e, 1, Fulfilled(ResponseNotFound))
         /\ UNCHANGED <<headersVars, messageVars>>
  \/ \E e \in 1..MaxInterleaved : cur.ev = e /\ CallWaitUntil(e, e, "pending")
  \/ ThenReaction /\ UNCHANGED <<headersVars, messageVars>>
  \/ CatchReaction /\ UNCHANGED <<headersVars, messageVars>>

SpecInterleaved == Init /\ [][InterleavedNext]_vars

\* ------------------------------------------------------------------- claims

EventIds == 1..Len(events)
ChainIds(e) == 1..Len(events[e].chains)
RepliesOf(e) == replies[events[e].ctx]

\* The spec's states of a FetchEvent, read off the code's state: Pending until a
\* respondWith call is accepted, Settled once the reply function has been invoked.
StateOf(e) ==
  IF ~events[e].responded THEN "Pending"
  ELSE IF RepliesOf(e) = <<>> THEN "Claimed"
  ELSE "Settled"

\* The dispatch of exchange x has returned.
DispatchDone(x) == x \in 1..Len(dispatched) /\ cur.x # x

\* The invocations made for exchange x, in order.
RECURSIVE InvocationsOf(_, _)
InvocationsOf(invs, x) ==
  IF invs = <<>> THEN <<>>
  ELSE IF invs[1].x = x THEN <<invs[1]>> \o InvocationsOf(Tail(invs), x)
  ELSE InvocationsOf(Tail(invs), x)

\* C1: for one FetchEvent the reply function is invoked at most once, whatever is
\* submitted and whether or not an invocation of the reply function throws.
C1_SinkInvokedAtMostOnce == \A x \in 1..Len(replies) : Len(replies[x]) <= 1

\* C2: a respondWith call on an event on which respondWith was called before throws the
\* already-responded error synchronously, in the Claimed and in the Settled state alike,
\* and changes neither the event, nor the queued reactions, nor the replies.
C2_SecondCallThrows ==
  [][\A e \in EventIds :
       (Len(calls'[e]) = Len(calls[e]) + 1 /\ Len(calls[e]) >= 1)
         => /\ StateOf(e) \in {"Claimed", "Settled"}
            /\ lastError' = AlreadyRespondedError
            /\ events' = events
            /\ microtasks' = microtasks
            /\ replies' = replies]_vars

\* A second call was rejected while the first call's argument was still unresolved.
C2_Witness ==
  \E e \in EventIds :
    /\ Len(calls[e]) = 2
    /\ ~calls[e][2].accepted
    /\ StateOf(e) = "Claimed"
    /\ events[e].chains[1].stage = "waiting"
    /\ lastError = AlreadyRespondedError

\* C3: every invocation of the reply function comes from the chain of the first
\* respondWith call on the event, and carries either the wire form of the Response that
\* call's argument fulfilled with or the synthetic 500 response for that chain's
\* failure; the argument of a later call is never forwarded.
C3_OnlyFirstArgumentForwarded ==
  \A e \in EventIds : \A k \in 1..Len(RepliesOf(e)) :
    LET r == RepliesOf(e)[k]
        chain == events[r.ev].chains[r.ch]
    IN /\ r.ev = e
       /\ chain.call = 1
       /\ calls[e][1].accepted
       /\ chain.p0.state # "pending"
       /\ \/ /\ chain.p0.state = "fulfilled"
             /\ chain.p0.value.t = "Response"
             /\ r.wire = ToJsResponse(chain.p0.value)
             /\ calls[e][1].arg \in {Pending, chain.p0}
          \/ /\ chain.p1.state = "rejected"
             /\ ~PropertyReadThrows(chain.p1.value)
             /\ r.wire = ToJsResponse(ErrorResponse(chain.p1.value))

\* The first argument was pending when a second call submitted an already fulfilled,
\* different Response; the reply sent afterwards is the first argument's.
C3_Witness ==
  \E e \in EventIds :
    /\ Len(calls[e]) = 2
    /\ calls[e][1].arg = Pending
    /\ calls[e][2].arg = Fulfilled(ResponseNotFound)
    /\ Len(RepliesOf(e)) = 1
    /\ RepliesOf(e)[1].wire = ToJsResponse(ResponseHi)

\* C4: when the argument is, or fulfils with, a Response, the reply function is invoked
\* exactly once, with that Response's wire form, and the event is Settled.
C4_ResponseForwardedExactlyOnce ==
  \A e \in EventIds : \A c \in ChainIds(e) :
    LET chain == events[e].chains[c]
    IN (chain.stage = "done" /\ chain.p0.state = "fulfilled" /\ chain.p0.value.t = "Response")
         => /\ Len(RepliesOf(e)) = 1
            /\ RepliesOf(e)[1].wire = ToJsResponse(chain.p0.value)
            /\ StateOf(e) = "Settled"

\* The UTF-8 bytes of the messages, written out.
ExpectedUtf8(m) == IF m = BeText THEN <<98, 195, 169>> ELSE m

\* C5: when the argument rejects with an Error of message m, the reply function receives
\* exactly one wire response: status 500, body the bytes of "Internal Server Error: " m.
C5_RejectionGives500 ==
  \A e \in EventIds : \A c \in ChainIds(e) :
    LET chain == events[e].chains[c]
    IN (chain.stage = "done" /\ chain.p0.state = "rejected" /\ chain.p0.value.t = "Error")
         => /\ Len(RepliesOf(e)) = 1
            /\ RepliesOf(e)[1].wire.status = 500
            /\ RepliesOf(e)[1].wire.body =
                 Bytes(InternalServerErrorPrefix \o ExpectedUtf8(chain.p0.value.message.v))

\* The argument rejected with Error("bé") and its chain has run to the end.
C5_Witness ==
  \E e \in EventIds :
    /\ Len(events[e].chains) = 1
    /\ events[e].chains[1].stage = "done"
    /\ events[e].chains[1].p0 = Rejected(Err(Str(BeText)))
    /\ Len(RepliesOf(e)) = 1

\* C6: once the argument of an accepted call has settled, with any value or reason,
\* and the reply function does not fail, the finished chain has invoked the reply
\* function exactly once.
C6_SettledArgumentGivesOneReply ==
  \A e \in EventIds : \A c \in ChainIds(e) :
    (/\ events[e].chains[c].stage = "done"
     /\ \A k \in 1..Len(RepliesOf(e)) : ~RepliesOf(e)[k].threw)
      => Len(RepliesOf(e)) = 1

C8_NoRespondWithNoReply ==
  \A e \in EventIds :
    calls[e] = <<>> => /\ RepliesOf(e) = <<>>
                       /\ StateOf(e) = "Pending"
                       /\ events[e].chains = <<>>

\* A dispatch has returned in which every handler threw before calling respondWith.
C8_Witness ==
  \E e \in EventIds :
    /\ DispatchDone(events[e].ctx)
    /\ calls[e] = <<>>
    /\ Len(InvocationsOf(invocations, events[e].ctx)) = 2
    /\ \A k \in 1..Len(invocations) : invocations[k].threw

\* C9: when handlers throw during a dispatch, each throw is logged and none leaves the
\* dispatch callback, and the handlers registered after a throwing one are still
\* invoked: the returned dispatch has invoked the whole handler list.
C9_HandlerThrowCaught ==
  /\ \A k \in 1..Len(escaped) : escaped[k].kind # "dispatch"
  /\ \A x \in 1..Len(dispatched) :
       LET invs == InvocationsOf(invocations, x)
           threw == {k \in 1..Len(invs) : invs[k].threw}
           logged == {k \in 1..Len(consoleErrors) :
                        consoleErrors[k].kind = "handler" /\ consoleErrors[k].x = x}
       IN /\ Cardinality(logged) = Cardinality(threw)
          /\ (DispatchDone(x) /\ threw # {})
               => [k \in 1..Len(invs) |-> invs[k].h] = dispatched[x]

\* The first of two handlers threw and the second was invoked all the same.
C9_Witness ==
  \E x \in 1..Len(dispatched) :
    LET invs == InvocationsOf(invocations, x)
    IN /\ DispatchDone(x)
       /\ Len(invs) = 2
       /\ invs[1].threw
       /\ ~invs[2].threw

\* C10: for every exchange exactly one FetchEvent is constructed, and the returned
\* dispatch has invoked every registered handler exactly once, in registration order,
\* each with that event.
C10_EveryHandlerOnceInOrder ==
  /\ Len(events) = Len(dispatched)
  /\ \A e \in EventIds : events[e].ctx = e
  /\ \A x \in 1..Len(dispatched) :
       LET invs == InvocationsOf(invocations, x)
       IN /\ \A k \in 1..Len(invs) : invs[k].ev = x /\ invs[k].h = dispatched[x][k]
          /\ DispatchDone(x) => Len(invs) = Len(dispatched[x])

\* A dispatch over two different handlers has returned.
C10_Witness ==
  \E x \in 1..Len(dispatched) :
    /\ DispatchDone(x)
    /\ Len(dispatched[x]) = 2
    /\ dispatched[x][1] # dispatched[x][2]
    /\ Len(InvocationsOf(invocations, x)) = 2

\* ---------------------------------------------------------- claims: Headers

IsUpperLetter(c) == c >= 65 /\ c <= 90
IsLowerLetter(c) == c >= 97 /\ c <= 122

\* Two names differ at most in the case of their letters.
SameUpToCase(a, b) ==
  /\ Len(a) = Len(b)
  /\ \A i \in 1..Len(a) :
       \/ a[i] = b[i]
       \/ IsUpperLetter(a[i]) /\ b[i] = a[i] + 32
       \/ IsLowerLetter(a[i]) /\ b[i] = a[i] - 32

NoUpperLetter(cs) == \A i \in 1..Len(cs) : ~IsUpperLetter(cs[i])

\* C18: whatever a Headers was constructed from and whichever of set, append and
\* delete were called on it, every stored key is lower-case; get, has, delete, set and
\* append give the same result and the same map for two names that differ only in
\* letter case; and delete of an absent name leaves the map as it was.
C18_HeadersCaseInsensitive ==
  /\ \A i \in 1..Len(hmap) : NoUpperLetter(hmap[i][1])
  /\ \A n1, n2 \in HeaderNames :
       SameUpToCase(n1, n2) =>
         /\ HeadersGet(hmap, n1) = HeadersGet(hmap, n2)
         /\ HeadersHas(hmap, n1) = HeadersHas(hmap, n2)
         /\ HeadersDelete(hmap, n1) = HeadersDelete(hmap, n2)
         /\ \A v \in HeaderValues :
              /\ HeadersSet(hmap, n1, v) = HeadersSet(hmap, n2, v)
              /\ HeadersAppend(hmap, n1, v) = HeadersAppend(hmap, n2, v)
  /\ (hlast.op = "delete" /\ \A i \in 1..Len(hlast.before) :
                               ~SameUpToCase(hlast.before[i][1], hlast.name))
       => hmap = hlast.before
  /\ (hlast.op = "delete" /\ \E i \in 1..Len(hlast.before) :
                               SameUpToCase(hlast.before[i][1], hlast.name))
       => /\ Len(hmap) = Len(hlast.before) - 1
          /\ \A i \in 1..Len(hmap) : ~SameUpToCase(hmap[i][1], hlast.name)

\* A delete under an upper-case name removed the header stored under the lower-case
\* key, and a delete of an absent name was made.
C18_Witness ==
  /\ hlast.op = "delete"
  /\ hlast.name = HeaderXA
  /\ MapHas(hlast.before, LowerXA)
  /\ ~MapHas(hmap, LowerXA)

\* C19: after append(name, v2) the header holds v2 when the name was absent, and
\* v1 ", " v2 when it was present with value v1, whatever v1 is.
C19_AppendJoins ==
  hlast.op = "append" =>
    \E key \in {k \in HeaderNames : SameUpToCase(k, hlast.name) /\ NoUpperLetter(k)} :
      IF MapHas(hlast.before, key)
        THEN MapGet(hmap, key) =
               Str(MapGet(hlast.before, key).v \o <<44, 32>> \o hlast.value)
        ELSE MapGet(hmap, key) = Str(hlast.value)

\* The entries of init that name the same header as entry i, up to letter case.
SameHeaderAs(entries, i) == {j \in 1..Len(entries) : SameUpToCase(entries[j][1], entries[i][1])}

Greatest(S) == CHOOSE j \in S : \A k \in S : k <= j

\* C20: a newly constructed Headers holds, for every entry of its init, the value of
\* the last entry that names the same header up to letter case, and one key for each
\* header named.
C20_ConstructorLastWins ==
  hlast.op = "new" =>
    LET entries == IF IsNullish(hinit) THEN <<>> ELSE EntriesOf(hinit)
    IN /\ \A i \in 1..Len(entries) :
            HeadersGet(hmap, entries[i][1]) = Str(entries[Greatest(SameHeaderAs(entries, i))][2])
       /\ \A k \in 1..Len(hmap) : \E i \in 1..Len(entries) : SameUpToCase(hmap[k][1], entries[i][1])
       /\ \A k1, k2 \in 1..Len(hmap) : hmap[k1][1] = hmap[k2][1] => k1 = k2

\* A Headers was constructed from an array whose entries name one header twice, in two
\* casings and with two values.
C20_Witness ==
  /\ hlast.op = "new"
  /\ hinit.t = "array"
  /\ \E i, j \in 1..Len(EntriesOf(hinit)) :
       /\ i < j
       /\ EntriesOf(hinit)[i][1] # EntriesOf(hinit)[j][1]
       /\ SameUpToCase(EntriesOf(hinit)[i][1], EntriesOf(hinit)[j][1])
       /\ EntriesOf(hinit)[i][2] # EntriesOf(hinit)[j][2]

\* --------------------------------------------------------- claims: bodies

\* The call just made on a message (the step is a call of `op`).
JustCalled(op) == last # NoCall /\ last'.n = last.n + 1 /\ last'.op = op

\* The calls of text, arrayBuffer, blob and json made on message i, in order.
ReadsOf(i) == SelectSeq(reads[i].calls, LAMBDA c : c.op # "formData")

ConsumedRejection ==
  Rejected([t |-> "Error",
            message |-> [t |-> "string",
                         v |-> <<66, 111, 100, 121, 32, 104, 97, 115, 32, 97, 108, 114, 101,
                                 97, 100, 121, 32, 98, 101, 101, 110, 32, 99, 111, 110,
                                 115, 117, 109, 101, 100>>]])

\* C11: of the text, arrayBuffer, blob and json calls made on a message, awaited or
\* not, the first is never refused as consumed (text, arrayBuffer and blob fulfil;
\* json is pending until resumed and then fulfils or fails to parse) and every later
\* one is rejected with the body-already-consumed error (a later json is pending until
\* resumed, its text() call already rejected); the message is consumed as soon as one
\* such call was made and stays so.
C11_OnlyFirstReadSucceeds ==
  \A i \in MessageIds :
    LET cs == ReadsOf(i)
    IN /\ msgs[i].bodyUsed = (cs # <<>>)
       /\ \A k \in 1..Len(cs) :
            IF k = 1
              THEN /\ cs[k].promise # ConsumedRejection
                   /\ cs[k].op # "json" => cs[k].promise.state = "fulfilled"
              ELSE \/ cs[k].promise = ConsumedRejection
                   \/ /\ cs[k].op = "json"
                      /\ cs[k].promise = Pending
                      /\ \E a \in 1..Len(awaiting) :
                           /\ awaiting[a].m = i
                           /\ reads[i].calls[awaiting[a].k] = cs[k]
                           /\ awaiting[a].awaited = ConsumedRejection

\* A json() call not yet resumed was followed by a text() call on the same message,
\* which was rejected.
C11_Witness ==
  \E i \in MessageIds :
    /\ Len(ReadsOf(i)) >= 2
    /\ ReadsOf(i)[1].op = "json"
    /\ ReadsOf(i)[1].promise = Pending
    /\ ReadsOf(i)[2].op = "text"
    /\ ReadsOf(i)[2].promise = ConsumedRejection

\* What text(), arrayBuffer(), blob() and the body getter would give for message o.
ReadingsOf(h, o) ==
  <<Text(h, o).promise, ArrayBufferOf(h, o).promise, Blob(h, o).promise, BodyStream(h, o)>>

\* C12: a clone() call on a message not consumed returns a new message of the same
\* kind with the same metadata and headers, not consumed, whose body reads as the
\* original's, and leaves the original as it was; on a consumed message it throws the
\* clone-after-consumption error and constructs nothing.
C12_CloneExactlyWhenUnconsumed ==
  [][JustCalled("clone") =>
       LET m == msgs[last'.m]
       IN IF m.bodyUsed
            THEN /\ last'.result.t = "thrown"
                 /\ last'.result.error.message.v \in {CloneRequestText, CloneResponseText}
                 /\ (last'.result.error.message.v = CloneRequestText) = (m.t = "Request")
                 /\ msgs' = msgs
            ELSE /\ last'.result.t = "message"
                 /\ last'.result.id = Len(msgs) + 1
                 /\ Len(msgs') = Len(msgs) + 1
                 /\ SubSeq(msgs', 1, Len(msgs)) = msgs
                 /\ LET c == msgs'[last'.result.id]
                    IN /\ [c EXCEPT !.body = Null] = [m EXCEPT !.body = Null]
                       /\ ~c.bodyUsed
                       /\ (c.body = Null) = (m.body = Null)
                       /\ ReadingsOf(heap', c) = ReadingsOf(heap, m)
                       /\ ReadingsOf(heap', m) = ReadingsOf(heap, m)]_vars

\* A message with a body was cloned, then consumed, and a second clone() threw.
C12_Witness ==
  /\ Len(msgs) = 2
  /\ last.op = "clone"
  /\ last.result.t = "thrown"
  /\ msgs[last.m].body # Null
  /\ reads[2].of = last.m

\* C13: a message and its clone share no storage: a step that changes the body bytes
\* of one leaves the bytes of the other as they were, and so for the headers.
C13_CloneSharesNoStorage ==
  [][\A c \in MessageIds :
       reads[c].of # 0 =>
         LET m == reads[c].of
         IN /\ BodyBytes(heap', msgs'[m]) # BodyBytes(heap, msgs[m])
                 => BodyBytes(heap', msgs'[c]) = BodyBytes(heap, msgs[c])
            /\ BodyBytes(heap', msgs'[c]) # BodyBytes(heap, msgs[c])
                 => BodyBytes(heap', msgs'[m]) = BodyBytes(heap, msgs[m])
            /\ msgs'[m].headers # msgs[m].headers => msgs'[c].headers = msgs[c].headers
            /\ msgs'[c].headers # msgs[c].headers => msgs'[m].headers = msgs[m].headers]_vars

\* C14: every formData() call, on a consumed message or not, is rejected with the
\* not-implemented error; a message on which only formData() was called is not
\* consumed, and the first text, arrayBuffer, blob or json call after it is not
\* refused.
C14_FormDataNotImplemented ==
  \A i \in MessageIds :
    /\ \A k \in 1..Len(reads[i].calls) :
         reads[i].calls[k].op = "formData" =>
           reads[i].calls[k].promise =
             Rejected([t |-> "Error",
                       message |-> [t |-> "string",
                                    v |-> <<70, 111, 114, 109, 68, 97, 116, 97, 32, 112, 97,
                                            114, 115, 105, 110, 103, 32, 110, 111, 116, 32,
                                            121, 101, 116, 32, 105, 109, 112, 108, 101, 109,
                                            101, 110, 116, 101, 100>>]])
    /\ ReadsOf(i) = <<>> => ~msgs[i].bodyUsed
    /\ ReadsOf(i) # <<>> =>
         /\ ReadsOf(i)[1].promise # ConsumedRejection
         /\ ReadsOf(i)[1].op # "json" => ReadsOf(i)[1].promise.state = "fulfilled"

\* formData() was called on a message before its first text() call, which fulfilled,
\* and again after it.
C14_Witness ==
  \E i \in MessageIds :
    /\ Len(reads[i].calls) = 3
    /\ reads[i].calls[1].op = "formData"
    /\ reads[i].calls[2].op = "text"
    /\ reads[i].calls[2].promise.state = "fulfilled"
    /\ reads[i].calls[3].op = "formData"

\* The one text among the bodies under study that is JSON: "1".
ParsesAsJson(text) == text = <<49>>

\* C15: a json() call on a message not consumed marks it consumed and awaits what
\* text() gives, the UTF-8 decoding of the body; on a consumed message it awaits the
\* consumption error. When resumed, the call is rejected with the awaited error, or
\* fulfils when the text is JSON, or is rejected with a parse error, which is not the
\* consumption error.
C15_JsonIsTextThenParse ==
  [][/\ JustCalled("json") =>
          LET i == last'.m
              a == awaiting'[Len(awaiting')]
          IN /\ Len(awaiting') = Len(awaiting) + 1
             /\ a.m = i
             /\ reads'[i].calls[a.k] = [op |-> "json", promise |-> Pending]
             /\ msgs'[i].bodyUsed
             /\ IF msgs[i].bodyUsed THEN a.awaited = ConsumedRejection
                ELSE a.awaited = Fulfilled(Str(Utf8Decode(BodyBytes(heap, msgs[i]))))
     /\ (awaiting # <<>> /\ awaiting' = Tail(awaiting)) =>
          LET a == awaiting[1]
              p == reads'[a.m].calls[a.k].promise
          IN /\ msgs' = msgs
             /\ IF a.awaited.state = "rejected" THEN p = ConsumedRejection
                ELSE IF ParsesAsJson(a.awaited.value.v) THEN p = Fulfilled(Num(1))
                ELSE /\ p.state = "rejected"
                     /\ p # ConsumedRejection
                     /\ p.value = SyntaxErrorValue]_vars

\* A json() call on a body that is no JSON failed to parse and left the message
\* consumed; a second json() call was rejected as consumed.
C15_Witness ==
  \E i \in MessageIds :
    /\ Len(ReadsOf(i)) = 2
    /\ ReadsOf(i)[1] = [op |-> "json", promise |-> Rejected(SyntaxErrorValue)]
    /\ ReadsOf(i)[2] = [op |-> "json", promise |-> ConsumedRejection]
    /\ msgs[i].bodyUsed

\* C16: reading `body` leaves every message as it was, the consumed flag included; it
\* gives null exactly when the message has no Buffer (_body is null), and otherwise a
\* stream of one chunk, the bytes of the Buffer (no bytes for an empty Buffer).
C16_BodyGetterReadsOnly ==
  [][JustCalled("body") =>
       LET o == msgs[last'.m]
       IN /\ msgs' = msgs
          /\ heap' = heap
          /\ (last'.result = Null) = (o.body = Null)
          /\ o.body # Null =>
               /\ Len(last'.result.chunks) = 1
               /\ last'.result.chunks[1] = heap[o.body.id]]_vars

\* `body` was read on a consumed message that has bytes, after two other calls.
C16_Witness ==
  /\ last.op = "body"
  /\ last.n >= 3
  /\ msgs[last.m].bodyUsed
  /\ last.result # Null
  /\ last.result.chunks[1] # <<>>

\* C17: _toJsResponse leaves the Response as it was; it gives the status, the headers
\* in order with no upper-case letter in a name, and as body the Response's Buffer,
\* consumed or not (no body exactly when _body is null); a second conversion right
\* after the first gives the same.
C17_WireShapeReadsOnly ==
  [][JustCalled("_toJsResponse") =>
       LET o == msgs[last'.m]
           w == last'.result
       IN /\ msgs' = msgs
          /\ heap' = heap
          /\ w.status = o.status
          /\ Len(w.headers) = Len(o.headers)
          /\ \A k \in 1..Len(w.headers) :
               /\ w.headers[k].name = o.headers[k][1]
               /\ w.headers[k].value = o.headers[k][2]
               /\ NoUpperLetter(w.headers[k].name)
          /\ (w.body = Undefined) = (o.body = Null)
          /\ o.body # Null => w.body = o.body
          /\ (last.op = "_toJsResponse" /\ last.m = last'.m) => w = last.result]_vars

\* A consumed Response with a body was converted, its body present in the result.
C17_Witness ==
  /\ last.op = "_toJsResponse"
  /\ msgs[last.m].bodyUsed
  /\ last.result.body # Undefined
  /\ heap[last.result.body.id] # <<>>
  /\ Len(last.result.headers) >= 1

\* ------------------------------------------ claims: messages made from values

\* C21: the Response that Response.json(data, init) gives has content-type exactly
\* application/json, the status and status text of init (200 and OK by default), every
\* other header of init, and a body whose text parses to data.
C21_JsonResponse ==
  (last # NoCall /\ last.op = "Response.json" /\ last.n = 0) =>
    LET o == msgs[1]
        init == last.args.init
        given == IF IsNullish(init.headers) THEN <<>> ELSE EntriesOf(init.headers)
    IN /\ HeadersGet(o.headers, <<99, 111, 110, 116, 101, 110, 116, 45, 116, 121, 112, 101>>) =
            Str(<<97, 112, 112, 108, 105, 99, 97, 116, 105, 111, 110, 47, 106, 115, 111, 110>>)
       /\ \A k1, k2 \in 1..Len(o.headers) : SameUpToCase(o.headers[k1][1], o.headers[k2][1]) => k1 = k2
       /\ o.status = IF init.status = Undefined THEN 200 ELSE init.status.v
       /\ o.statusText = IF init.statusText = Undefined THEN Str(<<79, 75>>) ELSE init.statusText
       /\ \A i \in 1..Len(given) :
            ~SameUpToCase(given[i][1], <<99, 111, 110, 116, 101, 110, 116, 45, 116, 121, 112, 101>>)
              => HeadersGet(o.headers, given[i][1]) = Str(given[i][2])
       /\ JsonParse(Utf8Decode(BodyBytes(heap, o))) = Fulfilled(last.args.data)

\* C22: Response.redirect(url, status) with status one of 301, 302, 303, 307, 308, or
\* omitted (302), gives a Response with that status, the single header location: url
\* and no body; with any other status it throws and no Response exists.
C22_RedirectStatuses ==
  (last # NoCall /\ last.op = "Response.redirect" /\ last.n = 0) =>
    LET status == IF last.args.status = Undefined THEN 302 ELSE last.args.status.v
    IN IF status \in {301, 302, 303, 307, 308}
         THEN /\ Len(msgs) = 1
              /\ msgs[1].t = "Response"
              /\ msgs[1].status = status
              /\ msgs[1].headers = <<<<(<<108, 111, 99, 97, 116, 105, 111, 110>>), last.args.url.v>>>>
              /\ msgs[1].body = Null
              /\ ~msgs[1].bodyUsed
              /\ last.result = Undefined
         ELSE /\ msgs = <<>>
              /\ last.result.t = "thrown"
              /\ last.result.error.t = "Error"

\* Response.redirect was called with 304 and threw.
C22_Witness ==
  /\ last # NoCall
  /\ last.op = "Response.redirect"
  /\ last.args.status = Num(304)
  /\ last.result.t = "thrown"
  /\ msgs = <<>>

\* C23: new Request(r, init) gives a Request with r's url; with init's method, headers
\* and body where given and r's where not; and not consumed, whatever r is.
C23_RequestFromRequest ==
  [][(last # NoCall /\ last'.op = "new Request" /\ last'.n = last.n + 1) =>
       LET r == msgs[last'.m]
           init == last'.args
           q == msgs'[last'.result.id]
       IN /\ q.t = "Request"
          /\ q.url = r.url
          /\ q.method = IF init.method = Undefined THEN r.method ELSE init.method
          /\ q.headers = IF init.headers = Undefined THEN r.headers
                         ELSE HeadersCtor(init.headers)
          /\ BodyBytes(heap', q) = IF init.body = Undefined THEN BodyBytes(heap, r)
                                   ELSE Utf8Encode(init.body.v)
          /\ ~q.bodyUsed]_vars

\* ------------------------------------------------------ claims: registration

\* C24: addEventListener and removeEventListener called with any kind other than
\* "fetch" throw an error and leave the handler list as it was.
C24_UnknownKindRejected ==
  [][\A kind \in EventKinds, h \in HandlerIds :
       (kind # FetchKind /\ (AddEventListener(kind, h) \/ RemoveEventListener(kind, h)))
         => /\ handlers' = handlers
            /\ lastError' = Err(Str(UnknownEventPrefix \o kind))]_vars

\* A call with the kind "Fetch" was rejected while a handler is registered.
C24_Witness ==
  /\ Len(handlers) > 0
  /\ lastError = Err(Str(UnknownEventPrefix \o <<70, 101, 116, 99, 104>>))

\* C25: listen() with no handler registered throws, installs no dispatch callback and
\* does not start the transport; with a handler registered it installs the callback
\* and only then starts the transport, so a transport that was started has its
\* callback.
C25_ListenNeedsHandler ==
  [][/\ (Listen /\ Len(handlers) = 0)
          => /\ lastError' = NoHandlerError
             /\ installed' = installed
             /\ transport' = transport
     /\ (Listen /\ Len(handlers) > 0) => (installed' /\ transport' = "starting")
     /\ transport' # "created" => installed']_vars

\* An exchange was delivered by a listening transport.
C25_Witness == transport = "listening" /\ installed /\ Len(replies) > 0

\* ------------------------------------------------------ claims: event states

\* C30: a FetchEvent only moves Pending -> Claimed -> Settled. Its responded flag is
\* false when the event is constructed, becomes true only in a step that is an
\* accepted respondWith call on it (a step that sends nothing yet), is never reset,
\* and the reply function is never invoked for an event that is still Pending.
C30_EventStates ==
  [][/\ \A e \in 1..Len(events') : e > Len(events) => ~events'[e].responded
     /\ \A e \in 1..Len(events) :
          /\ events[e].responded => events'[e].responded
          /\ (~events[e].responded /\ events'[e].responded)
               => /\ Len(calls'[e]) = Len(calls[e]) + 1
                  /\ calls'[e][Len(calls'[e])].accepted
                  /\ replies' = replies
          /\ replies'[events[e].ctx] # replies[events[e].ctx] => events[e].responded
          /\ replies'[events[e].ctx] # <<>> => events'[e].responded]_vars

\* An event is Settled and a later respondWith call on it was refused.
C30_Witness ==
  \E e \in 1..Len(events) :
    /\ events[e].responded
    /\ replies[events[e].ctx] # <<>>
    /\ Len(calls[e]) >= 2
    /\ ~calls[e][Len(calls[e])].accepted

\* ----------------------------------------------------- claims: the exchange

\* C26: waitUntil(p) can be called on a Pending, Claimed or Settled event: it does
\* not throw, the background list of an event is exactly the promises passed to its
\* waitUntil calls in call order, the call leaves the responded flag, the replies and
\* the queued reply jobs as they were, and a queued reply job can always run, whatever
\* the state of the registered promises.
C26_WaitUntilAppends ==
  [][/\ \A e \in 1..Len(events') :
          LET Of(r) == r.ev = e
              passed == SelectSeq(reads', Of)
          IN events'[e].waitUntil \in Seq([id : BackgroundIds, state : {"pending", "fulfilled"}])
             /\ [k \in 1..Len(events'[e].waitUntil) |-> events'[e].waitUntil[k].id]
                  = [k \in 1..Len(passed) |-> passed[k].id]
     /\ \A e \in 1..Len(events), id \in BackgroundIds, s \in BackgroundStates :
          CallWaitUntil(e, id, s)
            => /\ lastError' = NoError
               /\ events'[e].responded = events[e].responded
               /\ events'[e].chains = events[e].chains
               /\ replies' = replies
               /\ microtasks' = microtasks
     /\ (Idle /\ microtasks # <<>>) => ENABLED (ThenReaction \/ CatchReaction)]_vars

\* waitUntil was called on a Pending event and again once the reply had been sent, and
\* the reply was sent while the promise registered first is still pending.
C26_Witness ==
  /\ Len(reads) = 2
  /\ ~reads[1].responded
  /\ reads[2].sent
  /\ reads[1].id # reads[2].id
  /\ events[1].waitUntil[1].state = "pending"
  /\ replies[1] # <<>>

\* C27: close() does not complete while a promise registered through waitUntil is
\* still unsettled.
C27_CloseAwaitsBackground ==
  transport = "closed"
    => \A e \in 1..Len(events) : \A k \in 1..Len(events[e].waitUntil) :
         events[e].waitUntil[k].state # "pending"

\* The bytes of a body that may be absent: of a descriptor, of a wire response.
BytesOf(body) == IF body.t = "bytes" THEN body.v ELSE <<>>

\* C28: with the echo handler as the one handler, the reply function of an exchange
\* delivered with body b is invoked at most once, and, once the exchange has been
\* worked off, exactly once, with status 200 and the bytes of b as body.
C28_EchoReturnsBody ==
  \A x \in 1..Len(replies) :
    /\ Len(replies[x]) <= 1
    /\ \A k \in 1..Len(replies[x]) :
         /\ replies[x][k].wire.status = 200
         /\ BytesOf(replies[x][k].wire.body) = BytesOf(last.ctxs[x].body)
    /\ (events[x].chains # <<>> /\ events[x].chains[1].stage = "done") => Len(replies[x]) = 1

\* C29: the FetchEvent made from a descriptor has a request with the descriptor's
\* method and url, with, for every header the descriptor names, the value of its last
\* pair of that name up to letter case under every spelling of the name, with no
\* other header, and with the descriptor's body bytes; its clientAddress is the
\* descriptor's; and its replies go to the reply function of its own exchange.
C29_EventFromDescriptor ==
  \A e \in 1..Len(events) :
    LET ctx == last.ctxs[e]
        request == events[e].request
        pairs == ctx.headers.v
        SameName(i) == {j \in 1..Len(pairs) : SameUpToCase(pairs[j].name, pairs[i].name)}
    IN /\ request.method = ctx.method
       /\ request.url = ctx.url
       /\ \A i \in 1..Len(pairs) : \A name \in HeaderNames \cup {pairs[i].name} :
            SameUpToCase(name, pairs[i].name)
              => HeadersGet(request.headers, name) = Str(pairs[Greatest(SameName(i))].value)
       /\ \A name \in HeaderNames :
            (\A i \in 1..Len(pairs) : ~SameUpToCase(name, pairs[i].name))
              => HeadersGet(request.headers, name) = Null
       /\ BodyBytes(heap, request) = BytesOf(ctx.body)
       /\ events[e].clientAddress = ctx.clientAddress
       /\ events[e].ctx = e
       /\ \A x \in 1..Len(replies) : \A k \in 1..Len(replies[x]) :
            replies[x][k].ev = e => x = e

\* An exchange with three header pairs, two of one name, and a body was answered.
C29_Witness ==
  /\ Len(events) = 1
  /\ Len(last.ctxs[1].headers.v) = 3
  /\ last.ctxs[1].body = Bytes(HiText)
  /\ replies[1] # <<>>

\* ------------------------------------------------ claims: order of the reply

\* C36: a respondWith call leaves the replies as they are, also when its argument is
\* a Response; the reply function of an exchange is invoked only when no dispatch is
\* running, the dispatch of that exchange has returned and has invoked every handler
\* registered.
C36_ReplyAfterDispatch ==
  [][\A x \in 1..Len(replies) :
       /\ calls' # calls => replies'[x] = replies[x]
       /\ replies'[x] # replies[x]
            => /\ pc = "idle"
               /\ DispatchDone(x)
               /\ Len(InvocationsOf(invocations, x)) = Len(dispatched[x])]_vars

\* The first of two handlers passed a Response to respondWith, and the reply was sent.
C36_Witness ==
  \E x \in 1..Len(replies) :
    /\ Len(dispatched[x]) = 2
    /\ Len(InvocationsOf(invocations, x)) = 2
    /\ calls[x] # <<>>
    /\ calls[x][1].arg = Fulfilled(ResponseHi)
    /\ replies[x] # <<>>
    /\ replies[x][1].wire = ToJsResponse(ResponseHi)

\* C37: while the promise passed to the accepted respondWith call has not settled, the
\* event is Claimed and stays Claimed: its reply function has not been invoked and is
\* not invoked by any step, no second chain is built, and every further respondWith
\* call on it throws the already-responded error.
C37_UnsettledStaysClaimed ==
  [][\A e \in EventIds :
       (events[e].chains # <<>> /\ events[e].chains[1].stage = "waiting")
         => /\ StateOf(e) = "Claimed"
            /\ events'[e].chains[1].stage = "waiting"
                 => /\ replies'[events[e].ctx] = <<>>
                    /\ events'[e].responded
                    /\ Len(events'[e].chains) = 1
                    /\ Len(calls'[e]) > Len(calls[e])
                         => /\ ~calls'[e][Len(calls'[e])].accepted
                            /\ lastError' = AlreadyRespondedError]_vars

\* The dispatch over two handlers has returned: the first passed a promise that is
\* still pending, the call of the second was refused, and nothing was sent.
C37_Witness ==
  \E e \in EventIds :
    /\ DispatchDone(events[e].ctx)
    /\ Len(InvocationsOf(invocations, events[e].ctx)) = 2
    /\ Len(calls[e]) = 2
    /\ calls[e][1].arg = Pending
    /\ ~calls[e][2].accepted
    /\ events[e].chains[1].stage = "waiting"
    /\ RepliesOf(e) = <<>>

\* C40: the .catch callback of respondWith never runs with responseSent true (its
\* branch that only logs is never taken), and an invocation of the reply function
\* that returned is the last one of its exchange.
C40_NoReplyAfterSuccess ==
  /\ \A k \in 1..Len(consoleErrors) : consoleErrors[k].kind # "afterSent"
  /\ \A e \in EventIds : \A c \in ChainIds(e) :
       (events[e].chains[c].stage = "catch" /\ events[e].chains[c].p1.state = "rejected")
         => ~events[e].chains[c].responseSent
  /\ \A x \in 1..Len(replies) : \A k \in 1..Len(replies[x]) :
       ~replies[x][k].threw => k = Len(replies[x])

\* A reply was sent, the chain has ended, and a later respondWith call on the event
\* was refused.
C40_Witness ==
  \E e \in EventIds :
    /\ Len(RepliesOf(e)) = 1
    /\ ~RepliesOf(e)[1].threw
    /\ events[e].chains[1].stage = "done"
    /\ events[e].chains[1].responseSent
    /\ Len(calls[e]) = 2

\* ------------------------------------------------ claims: the handler list

\* C38: the handler list is a sequence that may hold a handler several times:
\* addEventListener("fetch", h) appends h also when it is registered already,
\* removeEventListener("fetch", h) takes out the first occurrence of h only and
\* leaves the list as it is, without error, when h is not registered, and a dispatch
\* that has returned has invoked every handler as often as it was registered.
C38_HandlerListWithDuplicates ==
  [][/\ \A h \in HandlerIds :
          /\ AddEventListener(FetchKind, h)
               => handlers' = Append(handlers, h) /\ lastError' = NoError
          /\ RemoveEventListener(FetchKind, h)
               => /\ lastError' = NoError
                  /\ IF \E i \in 1..Len(handlers) : handlers[i] = h
                       THEN \E i \in 1..Len(handlers) :
                              /\ handlers[i] = h
                              /\ \A j \in 1..(i - 1) : handlers[j] # h
                              /\ handlers' = [k \in 1..(Len(handlers) - 1) |->
                                                IF k < i THEN handlers[k] ELSE handlers[k + 1]]
                       ELSE handlers' = handlers
     /\ \A x \in 1..Len(dispatched') : \A h \in HandlerIds :
          (x \in 1..Len(dispatched') /\ cur'.x # x)
            => Cardinality({k \in 1..Len(invocations') :
                              invocations'[k].x = x /\ invocations'[k].h = h})
                 = Cardinality({k \in 1..Len(dispatched'[x]) : dispatched'[x][k] = h})]_vars

\* A handler registered twice was invoked twice in one dispatch.
C38_Witness ==
  \E x \in 1..Len(dispatched) :
    /\ DispatchDone(x)
    /\ dispatched[x] = <<1, 1>>
    /\ Len(InvocationsOf(invocations, x)) = 2
    /\ \A k \in 1..Len(invocations) : invocations[k].h = 1

\* C39: the dispatch callback reads the handler list when an exchange arrives: the
\* handlers invoked for an exchange are those registered when its dispatch began,
\* whatever was registered when listen() was called, and an exchange that finds the
\* list empty gets no invocation, no respondWith call and no reply.
C39_HandlersReadAtDispatch ==
  [][/\ Len(dispatched') > Len(dispatched)
          => dispatched'[Len(dispatched')] = handlers
     /\ \A x \in 1..Len(dispatched) :
          /\ (pc = "loop" /\ cur.x = x /\ cur.i < Len(handlers))
               => /\ Len(invocations') = Len(invocations) + 1
                  /\ invocations'[Len(invocations')].h = handlers[cur.i + 1]
                  /\ invocations'[Len(invocations')].x = x
          /\ (dispatched[x] = <<>> /\ cur.x # x)
               => /\ InvocationsOf(invocations', x) = <<>>
                  /\ calls'[x] = <<>>
                  /\ replies'[x] = <<>>]_vars

\* The server listens, every handler was removed after listen(), and the dispatch of
\* an exchange has returned without invoking anything.
C39_Witness ==
  /\ installed
  /\ handlers = <<>>
  /\ Len(dispatched) = 1
  /\ dispatched[1] = <<>>
  /\ DispatchDone(1)
  /\ invocations = <<>>
  /\ replies[1] = <<>>

\* --------------------------------------------- claims: the two body capsules

\* C33: a Request and a Response made from the same body input, after the same calls
\* of text, arrayBuffer, blob, json, formData, body and clone, have given the same
\* result to the last call (the same value, the same rejection, both or neither an
\* exception) and have the same consumed flag.
C33_SameBodyCapsule ==
  (Len(msgs) = 2 /\ last.n > 0)
    => /\ last.results[1] = last.results[2]
       /\ msgs[1].bodyUsed = msgs[2].bodyUsed

\* --------------------------------------------- claims: the wire header list

\* C35: the wire header list of a Headers names each header at most once, in lower
\* case, in the order of first insertion: set and append on a name that is present
\* keep the list of names, on a name that is absent they put it at the end, delete
\* takes the name out (so that a set after a delete puts it at the end), and get and
\* has change nothing.
C35_WireHeaderOrder ==
  [][hlast' # hlast =>
       LET Names(m) == [i \in 1..Len(ToJsHeaders(m)) |-> ToJsHeaders(m)[i].name]
           before == Names(hmap)
           after == Names(hmap')
           key == ToLowerCase(hlast'.name)
           present == \E i \in 1..Len(before) : before[i] = key
       IN /\ \A i \in 1..Len(after) : NoUpperLetter(after[i])
          /\ \A i, j \in 1..Len(after) : after[i] = after[j] => i = j
          /\ hlast'.op \in {"set", "append"}
               => after = IF present THEN before ELSE Append(before, key)
          /\ hlast'.op = "delete" => after = SelectSeq(before, LAMBDA n : n # key)
          /\ hlast'.op \in {"get", "has"} => ToJsHeaders(hmap') = ToJsHeaders(hmap)]_vars

\* A header the Headers was constructed with was deleted and set again: it now comes
\* last in the wire list, after a header that was inserted after it.
C35_Witness ==
  /\ hlast.op = "set"
  /\ Len(hmap) >= 2
  /\ ToJsHeaders(hmap)[Len(hmap)].name = ToLowerCase(hlast.name)
  /\ HeadersCtor(hinit) # <<>>
  /\ HeadersCtor(hinit)[1][1] = ToLowerCase(hlast.name)
  /\ ~MapHas(hlast.before, ToLowerCase(hlast.name))

\* -------------------------------------- claims: handlers during a dispatch

\* C31: when handlers change the handler list during a dispatch, a handler that was
\* registered once when the dispatch began and that no call has removed or added
\* since has been invoked exactly once when the dispatch has returned.
C31_NoHandlerSkipped ==
  \A x \in 1..Len(dispatched) : \A h \in HandlerIds :
    (/\ DispatchDone(x)
     /\ Cardinality({k \in 1..Len(dispatched[x]) : dispatched[x][k] = h}) = 1
     /\ \A k \in 1..Len(reads) : reads[k].h # h)
      => Cardinality({k \in 1..Len(invocations) :
                        invocations[k].x = x /\ invocations[k].h = h}) = 1

\* C32: the promise an async handler returns is never left rejected without a
\* handler: its rejection is caught and logged by the dispatch loop.
C32_AsyncFailureHandled ==
  \A k \in 1..Len(escaped) : escaped[k].kind # "handlerRejection"

\* ------------------------------------------ claims: interleaved exchanges

\* C34: with the dispatches and replies of several exchanges interleaved, every
\* invocation of a reply function comes from the FetchEvent of that function's own
\* exchange and carries the Response submitted through that event (or the 500
\* response made for it), and a step that changes the record, the respondWith calls or
\* the replies of one event leaves those of every other event as they were.
C34_ExchangesIsolated ==
  [][/\ \A x \in 1..Len(replies') : \A k \in 1..Len(replies'[x]) :
          LET r == replies'[x][k]
              chain == events'[r.ev].chains[r.ch]
          IN /\ r.ev = x
             /\ events'[r.ev].ctx = x
             /\ \/ chain.p0.state = "fulfilled" /\ r.wire = ToJsResponse(chain.p0.value)
                \/ r.wire.status = 500
     /\ \A e1, e2 \in 1..Len(events) :
          (e1 # e2 /\ (events'[e1] # events[e1] \/ calls'[e1] # calls[e1]
                        \/ replies'[e1] # replies[e1]))
            => /\ events'[e2] = events[e2]
               /\ calls'[e2] = calls[e2]
               /\ replies'[e2] = replies[e2]]_vars

\* The second exchange has its reply, the Response its own event was given, while the
\* first still waits for its promise with a background task registered.
C34_Witness ==
  /\ Len(events) = 2
  /\ events[1].chains # <<>>
  /\ events[1].chains[1].stage = "waiting"
  /\ events[1].waitUntil # <<>>
  /\ replies[1] = <<>>
  /\ events[2].waitUntil = <<>>
  /\ Len(replies[2]) = 1
  /\ replies[2][1].wire = ToJsResponse(ResponseNotFound)

====
